---------------------------- MODULE Spec2Model ----------------------------
(***************************************************************************)
(* DataNormTS: schema-driven normalize / denormalize, the custom handler   *)
(* registry and the keyed lock around safeNormalize.                       *)
(*                                                                         *)
(* JavaScript values are tagged records [kind, val]; objects are functions *)
(* from property names to values, arrays are sequences.  A thrown error is *)
(* a record [ok |-> FALSE, error |-> [name, message, context]].            *)
(***************************************************************************)
EXTENDS Integers, Sequences, FiniteSets, TLC

\* The field names of the records of this module.  Every record constructor
\* lists its fields in this order, the order in which TLC keeps the fields
\* of a record, so that a record is in its stored form when it is built.
FieldOrder ==
  [kind |-> "kind", ok |-> "ok", key |-> "key", path |-> "path",
   expectedType |-> "expectedType", threw |-> "threw",
   entityName |-> "entityName", index |-> "index",
   originalError |-> "originalError", entityType |-> "entityType",
   op |-> "op", val |-> "val", entries |-> "entries", depth |-> "depth",
   actualType |-> "actualType", receivedType |-> "receivedType",
   id |-> "id", item |-> "item", entityId |-> "entityId", type |-> "type",
   removed |-> "removed", from |-> "from", entities |-> "entities",
   value |-> "value", missingProperty |-> "missingProperty",
   items |-> "items", name |-> "name", handler |-> "handler",
   data |-> "data", result |-> "result", error |-> "error",
   minLength |-> "minLength", minimum |-> "minimum",
   message |-> "message", properties |-> "properties",
   maxLength |-> "maxLength", maximum |-> "maximum",
   context |-> "context", required |-> "required",
   actualLength |-> "actualLength", entity |-> "entity",
   schema |-> "schema", normalizedData |-> "normalizedData",
   out |-> "out",
   schemaType |-> "schemaType", schemaEntity |-> "schemaEntity",
   pattern |-> "pattern", phase |-> "phase", acc |-> "acc",
   store |-> "store", frames |-> "frames", ret |-> "ret", level |-> "level"]

VARIABLES
  customSchemaHandlers,  \* types.ts: registry, type name -> handler
  call,                  \* the most recent API call with its inputs and outcome
  pc,                    \* safeNormalize: position of each caller
  input,                 \* safeNormalize: the (data, schema) of each caller
  queues,                \* normalizationLock: per key, the waiting callers
  denormalizationQueues, \* denormalizationLock: per key, the waiting callers
  outcome,               \* safeNormalize: what each caller's promise settled to
  store,                 \* normalize: the entities object of the call in progress
  frames,                \* normalize: the normalizeEntity activations on the call stack
  ret,                   \* normalize: what the finished call returned or threw
  minLevel,              \* logger: options.minLevel
  logQueue,              \* logger: the entries waiting to be processed
  isProcessing,          \* logger: the flag a processLogQueue pass holds
  immediates,            \* logger: the setImmediate callbacks not yet run
  passes,                \* logger: per pass awaiting writeToFile, the rest of its batch
  emitted,               \* logger: the entries handed to logToConsole, in order
  accepted,              \* logger: the entries log() has enqueued, in order
  logged                 \* logger: the number of log() calls made

walkVars == <<store, frames, ret>>
logVars == <<minLevel, logQueue, isProcessing, immediates, passes, emitted, accepted, logged>>

vars ==
  <<customSchemaHandlers, call, pc, input, queues, denormalizationQueues, outcome,
    walkVars, logVars>>

-----------------------------------------------------------------------------
(* JavaScript values *)

Undefined == [kind |-> "undefined"]
Null == [kind |-> "null"]
Str(s) == [kind |-> "string", val |-> s]
Num(n) == [kind |-> "number", val |-> n]
Bool(b) == [kind |-> "boolean", val |-> b]
Arr(seq) == [kind |-> "array", val |-> seq]
Obj(f) == [kind |-> "object", val |-> f]
Ref(a) == [kind |-> "ref", val |-> a]
EmptyObj == Obj([k \in {} |-> Undefined])

\* Objects that are reachable through a reference instead of being written
\* inline: the only way a data graph can contain a pointer cycle.
\* cycA.friends = [cycB], cycB.friends = [cycA].
Heap ==
  [a \in {"cycA", "cycB"} |->
     IF a = "cycA"
     THEN Obj([k \in {"id", "name", "friends"} |->
            CASE k = "id" -> Str("1")
              [] k = "name" -> Str("ann")
              [] OTHER -> Arr(<<Ref("cycB")>>)])
     ELSE Obj([k \in {"id", "name", "friends"} |->
            CASE k = "id" -> Str("2")
              [] k = "name" -> Str("bob")
              [] OTHER -> Arr(<<Ref("cycA")>>)])]

Deref(v) == IF v.kind = "ref" THEN Heap[v.val] ELSE v

\* typeof v
TypeOf(v) ==
  LET d == Deref(v) IN
  CASE d.kind \in {"object", "array", "null"} -> "object"
    [] OTHER -> d.kind

IsArray(v) == Deref(v).kind = "array"

\* !v
Falsy(v) ==
  LET d == Deref(v) IN
  \/ d.kind \in {"undefined", "null"}
  \/ d.kind = "boolean" /\ ~d.val
  \/ d.kind = "number" /\ d.val = 0
  \/ d.kind = "string" /\ d.val = ""

\* key in v, for an object v
HasProp(v, key) == key \in DOMAIN Deref(v).val

\* v[key], undefined when the property is absent
Get(v, key) == IF HasProp(v, key) THEN Deref(v).val[key] ELSE Undefined

\* obj[key] = value
SetProp(f, key, value) == [k \in DOMAIN f \cup {key} |-> IF k = key THEN value ELSE f[k]]

Digit(d) == <<"0", "1", "2", "3", "4", "5", "6", "7", "8", "9">>[d + 1]

RECURSIVE NumStr(_)
NumStr(n) ==
  IF n < 0 THEN "-" \o NumStr(-n)
  ELSE IF n < 10 THEN Digit(n)
  ELSE NumStr(n \div 10) \o Digit(n % 10)

-----------------------------------------------------------------------------
(* Errors *)

Throw(name, message, context) ==
  [ok |-> FALSE, error |-> [name |-> name, message |-> message, context |-> context]]

Passed == [ok |-> TRUE]

-----------------------------------------------------------------------------
(* Schema entities (types.ts).  A schema entity is a record whose optional *)
(* fields are present only when the schema sets them; an object schema's   *)
(* properties and a Schema's entries keep their declaration order.         *)

Prop(key, schema) == [key |-> key, schema |-> schema]

StringSchema == [type |-> "string"]
NumberSchema == [type |-> "number"]
ArraySchema(items) == [type |-> "array", items |-> items]
ObjectSchema(name, properties) == [type |-> "object", name |-> name, properties |-> properties]
NamelessObjectSchema(properties) == [type |-> "object", properties |-> properties]
CustomSchema(name) == [type |-> "custom", name |-> name]
WithRequired(schema, required) ==
  [type |-> schema.type, name |-> schema.name, properties |-> schema.properties,
   required |-> required]

Has(schema, field) == field \in DOMAIN schema

\* schema.name, undefined when it is not set
NameOf(schema) == IF Has(schema, "name") THEN Str(schema.name) ELSE Undefined

isObjectSchemaEntity(schema) == schema.type = "object"
isArraySchemaEntity(schema) == schema.type = "array"
isPrimitiveSchemaEntity(schema) == schema.type \in {"string", "number", "boolean"}
isCustomSchemaEntity(schema) == schema.type = "custom"
isStringSchemaEntity(schema) == schema.type = "string"
isNumberSchemaEntity(schema) == schema.type = "number"
isValidSchemaType(type) == type \in {"object", "array", "string", "number", "boolean", "custom"}

isEntityID_typeofOnly(value) == TypeOf(value) = "string"

isEntityID(value) == TypeOf(value) = "string" \/ TypeOf(value) = "number"

\* Nesting depth of a schema entity: 1 for a leaf.
RECURSIVE SchemaDepth(_)
RECURSIVE PropsDepth(_, _)
SchemaDepth(schema) ==
  IF isObjectSchemaEntity(schema) THEN 1 + PropsDepth(schema.properties, 1)
  ELSE IF isArraySchemaEntity(schema) THEN 1 + SchemaDepth(schema.items)
  ELSE 1
PropsDepth(properties, i) ==
  IF i > Len(properties) THEN 0
  ELSE LET d == SchemaDepth(properties[i].schema)
           r == PropsDepth(properties, i + 1)
       IN IF d > r THEN d ELSE r

-----------------------------------------------------------------------------
(* Regular expressions.  A pattern is one of a few source texts; the model *)
(* knows for each whether new RegExp(pattern) compiles and which strings   *)
(* it matches.                                                             *)

\* new RegExp(pattern) does not throw
PatternCompiles(pattern) == pattern # "("

\* new RegExp(pattern).test(value): "^a+$" matches the non-empty strings of
\* a's; every other pattern of the model matches everything.
PatternTest(pattern, value) ==
  CASE pattern = "^a+$" -> value \in {"a", "aa", "aaa", "aaaa", "aaaaa"}
    [] OTHER -> TRUE

-----------------------------------------------------------------------------
(* Schema validation (validators/validators.ts, schemaValidator.ts).  The  *)
(* numeric fields of a schema (minLength, maxLength, minimum, maximum) are *)
(* numbers in this model and pattern is a string; a value that is not an   *)
(* object where a schema entity should be is a JavaScript value record.    *)

MAX_DEPTH == 100

SchemaError(message, context) == Throw("SchemaValidationError", message, context)

validateStringSchema(entity, path) ==
  IF Has(entity, "minLength") /\ entity.minLength < 0
  THEN SchemaError("minLength must be a non-negative number at path: " \o path,
                   [path |-> path, minLength |-> entity.minLength, entity |-> entity])
  ELSE IF Has(entity, "maxLength") /\ entity.maxLength < 0
  THEN SchemaError("maxLength must be a non-negative number at path: " \o path,
                   [path |-> path, maxLength |-> entity.maxLength, entity |-> entity])
  ELSE IF Has(entity, "minLength") /\ Has(entity, "maxLength") /\ entity.minLength > entity.maxLength
  THEN SchemaError("minLength cannot be greater than maxLength at path: " \o path,
                   [path |-> path, minLength |-> entity.minLength,
                    maxLength |-> entity.maxLength, entity |-> entity])
  ELSE Passed

validateNumberSchema(entity, path) ==
  IF Has(entity, "minimum") /\ Has(entity, "maximum") /\ entity.minimum > entity.maximum
  THEN SchemaError("minimum cannot be greater than maximum at path: " \o path,
                   [path |-> path, minimum |-> entity.minimum,
                    maximum |-> entity.maximum, entity |-> entity])
  ELSE Passed

validatePrimitiveSchema(entity, path) ==
  IF isStringSchemaEntity(entity) THEN validateStringSchema(entity, path)
  ELSE IF isNumberSchemaEntity(entity) THEN validateNumberSchema(entity, path)
  ELSE Passed

validateCustomSchema(entity, path) ==
  IF ~Has(entity, "name") \/ entity.name = ""
  THEN SchemaError("Custom schema must have a name at path: " \o path,
                   [path |-> path, entity |-> entity])
  ELSE Passed

RECURSIVE validateSchemaEntity(_, _, _, _)
RECURSIVE validateProperties(_, _, _, _)

\* validateObjectSchema without the test of the name at the top level
validateObjectSchema_anyName(entity, path, isTopLevel, depth) ==
  IF ~Has(entity, "properties")
  THEN SchemaError("Object schema must have properties at path: " \o path,
                   [path |-> path, entity |-> entity])
  ELSE validateProperties(entity.properties, 1, path, depth)

validateObjectSchema(entity, path, isTopLevel, depth) ==
  IF isTopLevel /\ (~Has(entity, "name") \/ entity.name = "")
  THEN SchemaError("Top-level object schema must have a name at path: " \o path,
                   [path |-> path, entity |-> entity])
  ELSE IF ~Has(entity, "properties")
  THEN SchemaError("Object schema must have properties at path: " \o path,
                   [path |-> path, entity |-> entity])
  ELSE validateProperties(entity.properties, 1, path, depth)

\* for (const [key, value] of Object.entries(entity.properties))
validateProperties(properties, i, path, depth) ==
  IF i > Len(properties) THEN Passed
  ELSE LET r == validateSchemaEntity(properties[i].schema,
                                     path \o "." \o properties[i].key, FALSE, depth + 1)
       IN IF r.ok THEN validateProperties(properties, i + 1, path, depth) ELSE r

validateArraySchema(entity, path, depth) ==
  IF ~Has(entity, "items")
  THEN SchemaError("Array schema must have items at path: " \o path,
                   [path |-> path, entity |-> entity])
  ELSE validateSchemaEntity(entity.items, path \o ".items", FALSE, depth + 1)

validateSchemaEntity(entity, path, isTopLevel, depth) ==
  IF depth > MAX_DEPTH
  THEN SchemaError("Schema too deeply nested at path: " \o path, [path |-> path, entity |-> entity])
  ELSE IF Has(entity, "kind")
  THEN SchemaError("Invalid schema entity at path: " \o path, [path |-> path, entity |-> entity])
  ELSE IF ~Has(entity, "type") \/ ~isValidSchemaType(entity.type)
  THEN SchemaError("Invalid or missing schema type at path: " \o path,
                   [path |-> path, entity |-> entity])
  ELSE IF Has(entity, "optional") /\ TypeOf(entity.optional) # "boolean"
  THEN SchemaError("Invalid optional field at path: " \o path, [path |-> path, entity |-> entity])
  ELSE IF isObjectSchemaEntity(entity) THEN validateObjectSchema(entity, path, isTopLevel, depth)
  ELSE IF isArraySchemaEntity(entity) THEN validateArraySchema(entity, path, depth)
  ELSE IF isPrimitiveSchemaEntity(entity) THEN validatePrimitiveSchema(entity, path)
  ELSE validateCustomSchema(entity, path)

\* A Schema is [kind |-> "object", entries |-> <<Prop(key, entity), ...>>], the
\* entries in declaration order; anything else a caller passes as the schema
\* is a JavaScript value record.
Schema(entries) == [kind |-> "object", entries |-> entries]

RECURSIVE validateEntries(_, _)
validateEntries(entries, i) ==
  IF i > Len(entries) THEN Passed
  ELSE LET r == validateSchemaEntity(entries[i].schema, entries[i].key, TRUE, 0)
       IN IF r.ok THEN validateEntries(entries, i + 1) ELSE r

validateSchema_firstEntryOnly(schema) ==
  IF Falsy(schema) \/ TypeOf(schema) # "object" \/ IsArray(schema) \/ ~Has(schema, "entries")
  THEN SchemaError("Invalid schema: must be a non-array object", [schema |-> schema])
  ELSE IF Len(schema.entries) = 0 THEN Passed
  ELSE validateEntries(<<schema.entries[1]>>, 1)

validateSchema(schema) ==
  IF Falsy(schema) \/ TypeOf(schema) # "object" \/ IsArray(schema) \/ ~Has(schema, "entries")
  THEN SchemaError("Invalid schema: must be a non-array object", [schema |-> schema])
  ELSE validateEntries(schema.entries, 1)

-----------------------------------------------------------------------------
(* Primitive codec (normalizers/primitiveNormalizer.ts) *)

NormError(message, context) == Throw("NormalizationError", message, context)

validateStringValue(value, schema) ==
  IF Has(schema, "minLength") /\ Len(value.val) < schema.minLength
  THEN NormError("String length below minimum",
                 [value |-> value, minLength |-> schema.minLength,
                  actualLength |-> Len(value.val), schema |-> schema])
  ELSE IF Has(schema, "maxLength") /\ Len(value.val) > schema.maxLength
  THEN NormError("String length exceeds maximum",
                 [value |-> value, maxLength |-> schema.maxLength,
                  actualLength |-> Len(value.val), schema |-> schema])
  ELSE IF Has(schema, "pattern")
  THEN \* the try block's own throw is caught by its catch clause
       IF ~PatternCompiles(schema.pattern)
       THEN NormError("Invalid pattern in schema",
                      [error |-> "Invalid regular expression", schema |-> schema])
       ELSE IF ~PatternTest(schema.pattern, value.val)
       THEN NormError("Invalid pattern in schema",
                      [error |-> "String does not match pattern", schema |-> schema])
       ELSE Passed
  ELSE Passed

validateNumberValue_exclusive(value, schema) ==
  IF Has(schema, "minimum") /\ value.val <= schema.minimum
  THEN NormError("Number below minimum",
                 [value |-> value, minimum |-> schema.minimum, schema |-> schema])
  ELSE IF Has(schema, "maximum") /\ value.val > schema.maximum
  THEN NormError("Number exceeds maximum",
                 [value |-> value, maximum |-> schema.maximum, schema |-> schema])
  ELSE Passed

validateNumberValue(value, schema) ==
  IF Has(schema, "minimum") /\ value.val < schema.minimum
  THEN NormError("Number below minimum",
                 [value |-> value, minimum |-> schema.minimum, schema |-> schema])
  ELSE IF Has(schema, "maximum") /\ value.val > schema.maximum
  THEN NormError("Number exceeds maximum",
                 [value |-> value, maximum |-> schema.maximum, schema |-> schema])
  ELSE Passed

\* Returns [ok |-> TRUE, result |-> value] or the thrown error.
normalizePrimitive(value, schema) ==
  IF TypeOf(value) # schema.type
  THEN NormError("Type mismatch",
                 [expectedType |-> schema.type, actualType |-> TypeOf(value),
                  value |-> value, schema |-> schema])
  ELSE LET Checked(v) == IF v.ok THEN [ok |-> TRUE, result |-> value] ELSE v
       IN Checked(IF schema.type = "string" THEN validateStringValue(Deref(value), schema)
                  ELSE IF schema.type = "number" THEN validateNumberValue(Deref(value), schema)
                  ELSE Passed)

-----------------------------------------------------------------------------
(* Custom schema handlers.  A handler is user code; the model has the      *)
(* handlers the tests register.  Applying one yields [threw, value]: the   *)
(* value it returns, or threw = TRUE when it raises a TypeError.           *)

\* (entity) => entity.id
\* (entities) => entities.map(e => e.id)
\* () => ({ notAnEntityID: true })
\* () => ['not', 'an', 'array', 'of', 'EntityIDs']
\* (entity, schema, entities) => typeof entity === 'string' || typeof entity
\*   === 'number' ? entities[schema.name][entity] : entity.id
\* () => { throw null; }, a handler that throws a value that is no Error
HandlerKinds == {"entityId", "mapIds", "notAnEntityID", "fiveStrings", "storedOrId", "throwsNull"}

\* The string a value turns into when it is used as a property key.
RECURSIVE KeyString(_)
RECURSIVE JoinKeys(_, _)
KeyString(v) ==
  LET d == Deref(v) IN
  CASE d.kind = "string" -> d.val
    [] d.kind = "number" -> NumStr(d.val)
    [] d.kind = "boolean" -> IF d.val THEN "true" ELSE "false"
    [] d.kind = "null" -> "null"
    [] d.kind = "undefined" -> "undefined"
    [] d.kind = "array" -> JoinKeys(d.val, 1)
    [] OTHER -> "[object Object]"
JoinKeys(seq, i) ==
  IF i > Len(seq) THEN ""
  ELSE (IF Deref(seq[i]).kind \in {"null", "undefined"} THEN "" ELSE KeyString(seq[i]))
       \o (IF i < Len(seq) THEN "," ELSE "") \o JoinKeys(seq, i + 1)

Returned(value) == [threw |-> FALSE, value |-> value]
Raised(message) == [threw |-> TRUE, message |-> message]
RaisedValue(value) == [threw |-> TRUE, value |-> value]

\* entity.id
ReadId(entity) == IF TypeOf(entity) = "object" /\ ~IsArray(entity) THEN Get(entity, "id") ELSE Undefined

CallHandler(handler, entity, schema, entities) ==
  CASE handler = "entityId" ->
         IF Deref(entity).kind \in {"null", "undefined"}
         THEN Raised("Cannot read properties of null")
         ELSE Returned(ReadId(entity))
    [] handler = "mapIds" ->
         IF ~IsArray(entity) THEN Raised("entities.map is not a function")
         ELSE IF \E i \in 1..Len(Deref(entity).val) : Deref(Deref(entity).val[i]).kind \in {"null", "undefined"}
         THEN Raised("Cannot read properties of null")
         ELSE Returned(Arr([i \in 1..Len(Deref(entity).val) |-> ReadId(Deref(entity).val[i])]))
    [] handler = "notAnEntityID" ->
         Returned(Obj([k \in {"notAnEntityID"} |-> Bool(TRUE)]))
    [] handler = "storedOrId" ->
         IF TypeOf(entity) \in {"string", "number"}
         THEN IF schema.name \notin DOMAIN entities
              THEN Raised("Cannot read properties of undefined")
              ELSE IF KeyString(entity) \in DOMAIN entities[schema.name]
              THEN Returned(entities[schema.name][KeyString(entity)])
              ELSE Returned(Undefined)
         ELSE IF Deref(entity).kind \in {"null", "undefined"}
         THEN Raised("Cannot read properties of null")
         ELSE Returned(ReadId(entity))
    [] handler = "throwsNull" -> RaisedValue(Null)
    [] OTHER ->
         Returned(Arr(<<Str("not"), Str("an"), Str("array"), Str("of"), Str("EntityIDs")>>))

-----------------------------------------------------------------------------
(* Normalization engine (normalizers/*.ts).  Every operator returns        *)
(*   [ok |-> TRUE, depth, entities, result]  or                            *)
(*   [ok |-> FALSE, depth, entities, error]                                *)
(* where entities is the store as the call left it (it is mutated in       *)
(* place) and depth the deepest nesting of normalizeEntity frames reached. *)

Done(result, entities, depth) ==
  [ok |-> TRUE, depth |-> depth, entities |-> entities, result |-> result]
Fail(error, entities, depth) ==
  [ok |-> FALSE, depth |-> depth, entities |-> entities, error |-> error.error]

EmptyPartition == [k \in {} |-> Undefined]

\* entities[name] = {}, whether or not the partition is there
EnsurePartition_reset(entities, name) == SetProp(entities, name, EmptyPartition)

\* if (!entities[name]) { entities[name] = {}; }
EnsurePartition(entities, name) ==
  IF name \in DOMAIN entities THEN entities ELSE SetProp(entities, name, EmptyPartition)

StoreEntity_keepFirst(entities, name, id, value) ==
  IF KeyString(id) \in DOMAIN entities[name] THEN entities
  ELSE SetProp(entities, name, SetProp(entities[name], KeyString(id), value))

\* The assignment left out: the id is returned and nothing is stored.
StoreEntity_dropped(entities, name, id, value) == entities

\* entities[name][id] = value
StoreEntity(entities, name, id, value) ==
  SetProp(entities, name, SetProp(entities[name], KeyString(id), value))

Max(a, b) == IF a > b THEN a ELSE b

RECURSIVE normalizeEntity(_, _, _, _)
RECURSIVE normalizeProperties(_, _, _, _, _, _, _, _)
RECURSIVE normalizeItems(_, _, _, _, _, _, _)
RECURSIVE storeCustomItems(_, _, _, _, _)

\* The loop over Object.entries(schema.properties) of normalizeObject; the
\* loop of an object with an id also checks schema.required (identified).
normalizeProperties(entity, schema, entityName, identified, i, normalizedEntity, entities, handlers) ==
  IF i > Len(schema.properties) THEN Done(Obj(normalizedEntity), entities, 0)
  ELSE LET key == schema.properties[i].key
           propertySchema == schema.properties[i].schema
       IN IF HasProp(entity, key)
          THEN LET r == normalizeEntity(Get(entity, key), propertySchema, entities, handlers)
               IN IF ~r.ok THEN r
                  ELSE LET rest == normalizeProperties(entity, schema, entityName, identified, i + 1,
                                     SetProp(normalizedEntity, key, r.result), r.entities, handlers)
                       IN [rest EXCEPT !.depth = Max(r.depth, rest.depth)]
          ELSE IF identified /\ Has(schema, "required")
                  /\ \E j \in 1..Len(schema.required) : schema.required[j] = key
          THEN Fail(NormError("Missing required property",
                              [entityName |-> entityName, id |-> Get(entity, "id"),
                               missingProperty |-> key]), entities, 0)
          ELSE normalizeProperties(entity, schema, entityName, identified, i + 1,
                                   normalizedEntity, entities, handlers)

\* An object without an id stored like any other, under the key 'undefined'.
normalizeObject_storesInline(entity, schema, entities, handlers) ==
  IF Falsy(entity) \/ TypeOf(entity) # "object" \/ IsArray(entity)
  THEN Fail(NormError("Invalid entity for object schema",
                      [expectedType |-> "object", receivedType |-> TypeOf(entity)]), entities, 0)
  ELSE LET entityName == IF Has(schema, "name") /\ schema.name # "" THEN schema.name ELSE "unnamed"
           Store(r) ==
             IF ~r.ok THEN r
             ELSE Done(Get(entity, "id"),
                       StoreEntity(r.entities, entityName, Get(entity, "id"), r.result), r.depth)
       IN Store(normalizeProperties(entity, schema, entityName, TRUE, 1, EmptyPartition,
                                    EnsurePartition(entities, entityName), handlers))

normalizeObject(entity, schema, entities, handlers) ==
  IF Falsy(entity) \/ TypeOf(entity) # "object" \/ IsArray(entity)
  THEN Fail(NormError("Invalid entity for object schema",
                      [expectedType |-> "object", receivedType |-> TypeOf(entity)]), entities, 0)
  ELSE LET entityName == IF Has(schema, "name") /\ schema.name # "" THEN schema.name ELSE "unnamed"
           withPartition == EnsurePartition(entities, entityName)
           id == Get(entity, "id")
       IN IF id = Undefined
          THEN normalizeProperties(entity, schema, entityName, FALSE, 1, EmptyPartition,
                                   withPartition, handlers)
          ELSE LET Store(r) ==
                     IF ~r.ok THEN r
                     ELSE Done(id, StoreEntity(r.entities, entityName, id, r.result), r.depth)
               IN Store(normalizeProperties(entity, schema, entityName, TRUE, 1, EmptyPartition,
                                            withPartition, handlers))

\* A map that keeps whatever each item normalizes to.
normalizeItems_unchecked(array, schema, index, results, entities, depth, handlers) ==
  IF index > Len(array.val) THEN Done(Arr(results), entities, depth)
  ELSE LET Kept(r) ==
             IF ~r.ok THEN [r EXCEPT !.depth = Max(depth, r.depth)]
             ELSE normalizeItems(array, schema, index + 1, Append(results, r.result),
                                 r.entities, Max(depth, r.depth), handlers)
       IN Kept(normalizeEntity(array.val[index], schema.items, entities, handlers))

\* array.map((item, index) => ...)
normalizeItems(array, schema, index, results, entities, depth, handlers) ==
  IF index > Len(array.val) THEN Done(Arr(results), entities, depth)
  ELSE LET item == array.val[index]
           r == normalizeEntity(item, schema.items, entities, handlers)
       IN IF ~r.ok THEN [r EXCEPT !.depth = Max(depth, r.depth)]
          ELSE IF IsArray(r.result)
          THEN Fail(NormError("Nested arrays are not supported",
                              [index |-> index - 1, item |-> item, schema |-> schema]),
                    r.entities, Max(depth, r.depth))
          ELSE IF ~isEntityID(r.result)
          THEN Fail(NormError("Array item normalization did not result in an EntityID",
                              [index |-> index - 1, item |-> item, result |-> r.result,
                               schema |-> schema]),
                    r.entities, Max(depth, r.depth))
          ELSE normalizeItems(array, schema, index + 1, Append(results, r.result),
                              r.entities, Max(depth, r.depth), handlers)

normalizeArray(array, schema, entities, handlers) ==
  IF ~IsArray(array)
  THEN Fail(NormError("Invalid entity for array schema",
                      [expectedType |-> "array", receivedType |-> TypeOf(array),
                       schema |-> schema]), entities, 0)
  ELSE normalizeItems(Deref(array), schema, 1, <<>>, entities, 0, handlers)

\* types.ts: customSchemaHandlers[type]
getCustomSchemaHandler(handlers, type) ==
  IF type \in DOMAIN handlers THEN handlers[type] ELSE "absent"

storeCustomItems_nothing(result, entity, name, index, entities) == entities

\* result.forEach((id, index) => { entities[schema.name][id] = entity[index]; })
storeCustomItems(result, entity, name, index, entities) ==
  IF index > Len(result) THEN entities
  ELSE storeCustomItems(result, entity, name, index + 1,
                        StoreEntity(entities, name, result[index], entity[index]))

normalizeCustomEntity(entity, schema, entities, handlers) ==
  IF ~Has(schema, "name") \/ schema.name = ""
  THEN Fail(NormError("Custom schema must have a name", [schema |-> schema]), entities, 0)
  ELSE LET customHandler == getCustomSchemaHandler(handlers, schema.name) IN
  IF customHandler = "absent"
  THEN Fail(NormError("No custom handler found for schema type", [schemaType |-> schema.name]),
            entities, 0)
  ELSE LET Check(called) ==
  IF called.threw
  THEN IF Has(called, "message")
       THEN Fail(Throw("TypeError", called.message, [schema |-> schema]), entities, 0)
       ELSE Fail([error |-> called.value], entities, 0)
  ELSE LET result == called.value
           withPartition == EnsurePartition(entities, schema.name)
           context == [result |-> result, entity |-> entity, schema |-> schema]
       IN
  IF IsArray(entity)
  THEN IF ~IsArray(result)
       THEN Fail(NormError("Custom handler must return an array for array input", context),
                 withPartition, 0)
       ELSE IF \E i \in 1..Len(result.val) : ~isEntityID(result.val[i])
       THEN Fail(NormError("Custom handler must return an array of EntityIDs for array input",
                           context), withPartition, 0)
       ELSE IF Len(result.val) # Len(Deref(entity).val)
       THEN Fail(NormError("Custom handler must return an array of EntityIDs for array input",
                           context), withPartition, 0)
       ELSE Done(result,
                 storeCustomItems(result.val, Deref(entity).val, schema.name, 1, withPartition), 0)
  ELSE IF IsArray(result)
       THEN Fail(NormError("Custom handler must return a single EntityID for non-array input",
                           context), withPartition, 0)
       ELSE IF ~isEntityID(result)
       THEN Fail(NormError("Custom handler must return an EntityID for non-array input",
                           context), withPartition, 0)
       ELSE Done(result, StoreEntity(withPartition, schema.name, result, entity), 0)
  IN Check(CallHandler(customHandler, entity, schema, entities))

normalizeEntity(entity, schema, entities, handlers) ==
  LET Frame(r) == [r EXCEPT !.depth = r.depth + 1]
      Primitive(p) == IF p.ok THEN Done(p.result, entities, 0) ELSE Fail(p, entities, 0)
  IN Frame(IF isCustomSchemaEntity(schema) THEN normalizeCustomEntity(entity, schema, entities, handlers)
           ELSE IF isObjectSchemaEntity(schema) THEN normalizeObject(entity, schema, entities, handlers)
           ELSE IF isArraySchemaEntity(schema) THEN normalizeArray(entity, schema, entities, handlers)
           ELSE Primitive(normalizePrimitive(entity, schema)))

NoEntities == [k \in {} |-> EmptyPartition]

\* normalize(data, schema): [ok |-> TRUE, value |-> [entities, result], depth]
\* or [ok |-> FALSE, error, depth]; depth is 0 when no traversal started.
normalize(data, schema, handlers) ==
  LET Validated(valid) ==
  IF ~valid.ok
  THEN [ok |-> FALSE, depth |-> 0,
        error |-> [name |-> "NormalizationError",
                   message |-> "Schema validation failed: " \o valid.error.message,
                   context |-> [originalError |-> valid.error.message,
                                context |-> valid.error.context]]]
  ELSE IF Falsy(data) \/ TypeOf(data) # "object"
  THEN [ok |-> FALSE, depth |-> 0,
        error |-> NormError("Invalid input data", [receivedType |-> TypeOf(data)]).error]
  ELSE IF Len(schema.entries) = 0 \/ schema.entries[1].key = ""
  THEN [ok |-> FALSE, depth |-> 0,
        error |-> NormError("Schema must have at least one entry", [schema |-> schema]).error]
  ELSE LET Return(r) ==
             IF r.ok
             THEN [ok |-> TRUE, depth |-> r.depth,
                   value |-> [entities |-> r.entities, result |-> r.result]]
             ELSE IF Has(r.error, "name") /\ r.error.name = "NormalizationError"
             THEN [ok |-> FALSE, depth |-> r.depth, error |-> r.error]
             ELSE IF Has(r.error, "kind") /\ r.error.kind \in {"null", "undefined"}
             THEN \* (error as Error).message inside the catch block throws
                  [ok |-> FALSE, depth |-> r.depth,
                   error |-> Throw("TypeError", "Cannot read properties of null (reading 'message')",
                                   [k \in {} |-> Undefined]).error]
             ELSE [ok |-> FALSE, depth |-> r.depth,
                   error |-> NormError("Unexpected error during normalization",
                                       [originalError |-> r.error.message]).error]
       IN Return(normalizeEntity(data, schema.entries[1].schema, NoEntities, handlers))
  IN Validated(validateSchema(schema))

-----------------------------------------------------------------------------
(* Denormalization engine (denormalizers/denormalizer.ts).  NormalizedData *)
(* is [entities, result]; a malformed one may lack the entities field.     *)
(* Every operator returns [ok |-> TRUE, depth, value] or                   *)
(* [ok |-> FALSE, depth, error], depth counting denormalizeEntity frames.  *)

DenormError(message, context) == Throw("DenormalizationError", message, context)

Value(value, depth) == [ok |-> TRUE, depth |-> depth, value |-> value]
Broken(error, depth) == [ok |-> FALSE, depth |-> depth, error |-> error.error]

\* `${entityType || 'unknown'}`
TypeLabel(entityType) == IF Falsy(entityType) THEN "unknown" ELSE entityType.val

denormalizePrimitive_resolve(entityId, normalizedData) ==
  IF /\ Has(normalizedData, "entities")
     /\ "user" \in DOMAIN normalizedData.entities
     /\ KeyString(entityId) \in DOMAIN normalizedData.entities["user"]
  THEN Value(normalizedData.entities["user"][KeyString(entityId)], 0)
  ELSE Value(entityId, 0)

\* if (isPrimitiveSchemaEntity(schemaEntity)) { return entityId; }
denormalizePrimitive(entityId, normalizedData) == Value(entityId, 0)

RECURSIVE denormalizeEntity(_, _, _)
RECURSIVE denormalizeProperties(_, _, _, _, _)
RECURSIVE denormalizeItems(_, _, _, _, _, _)

\* for (const [key, propSchema] of Object.entries(schemaEntity.properties))
denormalizeProperties(entity, schemaEntity, i, denormalizedEntity, normalizedData) ==
  IF i > Len(schemaEntity.properties) THEN Value(Obj(denormalizedEntity), 0)
  ELSE LET key == schemaEntity.properties[i].key
           propSchema == schemaEntity.properties[i].schema
       IN IF HasProp(entity, key)
          THEN LET r == denormalizeEntity(Get(entity, key), propSchema, normalizedData)
               IN IF ~r.ok THEN r
                  ELSE LET rest == denormalizeProperties(entity, schemaEntity, i + 1,
                                     SetProp(denormalizedEntity, key, r.value), normalizedData)
                       IN [rest EXCEPT !.depth = Max(r.depth, rest.depth)]
          ELSE denormalizeProperties(entity, schemaEntity, i + 1, denormalizedEntity, normalizedData)

\* entity.map(item => denormalizeEntity(item, schemaEntity.items))
denormalizeItems(items, itemSchema, index, values, depth, normalizedData) ==
  IF index > Len(items) THEN Value(Arr(values), depth)
  ELSE LET r == denormalizeEntity(items[index], itemSchema, normalizedData)
       IN IF ~r.ok THEN [r EXCEPT !.depth = Max(depth, r.depth)]
          ELSE denormalizeItems(items, itemSchema, index + 1, Append(values, r.value),
                                Max(depth, r.depth), normalizedData)

Lookup_orEmptyObject(entityMap, entityId) ==
  IF KeyString(entityId) \in DOMAIN entityMap THEN entityMap[KeyString(entityId)] ELSE EmptyObj

\* entityMap[entityId], undefined when the map has no such key.  Type names
\* and ids are taken not to be names that every object inherits from
\* Object.prototype (constructor, toString, ...).
Lookup(entityMap, entityId) ==
  IF KeyString(entityId) \in DOMAIN entityMap THEN entityMap[KeyString(entityId)] ELSE Undefined

denormalizeEntity(entityId, schemaEntity, normalizedData) ==
  LET Frame(r) == [r EXCEPT !.depth = r.depth + 1] IN
  Frame(
    IF isPrimitiveSchemaEntity(schemaEntity) THEN denormalizePrimitive(entityId, normalizedData)
    ELSE LET entityType == NameOf(schemaEntity)
             named == ~Falsy(entityType)
         IN
    IF named /\ ~Has(normalizedData, "entities")
    THEN Broken(Throw("TypeError", "Cannot read properties of undefined", [entityType |-> entityType]), 0)
    ELSE IF (named /\ entityType.val \notin DOMAIN normalizedData.entities)
            \/ (~named /\ ~Has(normalizedData, "entities"))
    THEN Broken(DenormError("No entities found for type: " \o TypeLabel(entityType),
                            [entityType |-> entityType]), 0)
    ELSE LET entity == IF named THEN Lookup(normalizedData.entities[entityType.val], entityId)
                       ELSE entityId
         IN
    IF Falsy(entity)
    THEN Broken(DenormError("Entity not found: " \o TypeLabel(entityType) \o ":" \o KeyString(entityId),
                            [entityType |-> entityType, entityId |-> entityId]), 0)
    ELSE IF isObjectSchemaEntity(schemaEntity)
    THEN IF TypeOf(entity) = "object" /\ ~IsArray(entity)
         THEN denormalizeProperties(entity, schemaEntity, 1, EmptyPartition, normalizedData)
         ELSE Value(EmptyObj, 0)
    ELSE IF isArraySchemaEntity(schemaEntity)
    THEN IF IsArray(entity)
         THEN denormalizeItems(Deref(entity).val, schemaEntity.items, 1, <<>>, 0, normalizedData)
         ELSE IF isPrimitiveSchemaEntity(schemaEntity.items) THEN Value(entity, 0)
         ELSE Broken(DenormError("Expected array for entity: " \o TypeLabel(entityType) \o ":" \o KeyString(entityId),
                                 [entityType |-> entityType, entityId |-> entityId]), 0)
    ELSE IF isCustomSchemaEntity(schemaEntity)
    THEN Broken(DenormError("Custom schema entities are not supported in denormalization",
                            [schemaEntity |-> schemaEntity]), 0)
    ELSE Broken(DenormError("Unsupported schema type", [schemaEntity |-> schemaEntity]), 0))

denormalize(normalizedData, schema) ==
  IF Len(schema.entries) = 0
  THEN Broken(DenormError("Empty schema provided", [k \in {} |-> Undefined]), 0)
  ELSE LET rootSchemaEntity == schema.entries[1].schema
           result == normalizedData.result
       IN IF IsArray(result)
          THEN denormalizeItems(Deref(result).val, rootSchemaEntity, 1, <<>>, 0, normalizedData)
          ELSE IF TypeOf(result) \in {"string", "number"}
          THEN denormalizeEntity(result, rootSchemaEntity, normalizedData)
          ELSE Value(result, 0)

-----------------------------------------------------------------------------
(* The inputs the calls are made with *)

\* An object with the given properties, listed as <<key, value>> pairs.
Object(pairs) ==
  Obj([k \in {pairs[i][1] : i \in 1..Len(pairs)} |->
         LET i == CHOOSE j \in 1..Len(pairs) : pairs[j][1] = k IN pairs[i][2]])

\* tests/normalizer/normalizer.test.ts: the schemas of the round-trip tests
userProperties == <<Prop("id", StringSchema), Prop("name", StringSchema), Prop("age", NumberSchema)>>
userSchema == Schema(<<Prop("user", ObjectSchema("user", userProperties))>>)
requiredSchema ==
  Schema(<<Prop("user", WithRequired(ObjectSchema("user", userProperties), <<"name">>))>>)
friendSchema ==
  ObjectSchema("user", <<Prop("id", StringSchema), Prop("name", StringSchema),
                         Prop("friends", ArraySchema(StringSchema))>>)
circularSchema ==
  Schema(<<Prop("user", ObjectSchema("user",
             <<Prop("id", StringSchema), Prop("name", StringSchema),
               Prop("friends", ArraySchema(friendSchema))>>))>>)
\* README.md "Handling Nested Structures": the root entry is an array
usersSchema == Schema(<<Prop("users", ArraySchema(ObjectSchema("user", userProperties)))>>)
tagsSchema == Schema(<<Prop("tags", ArraySchema(StringSchema))>>)
customSchema == Schema(<<Prop("customEntity", CustomSchema("customEntity"))>>)
\* arrays of arrays, of booleans and of objects written inline
nestedTagsSchema == Schema(<<Prop("tags", ArraySchema(ArraySchema(StringSchema)))>>)
flagsSchema == Schema(<<Prop("flags", ArraySchema([type |-> "boolean"]))>>)
inlineUsersSchema == Schema(<<Prop("users", ArraySchema(NamelessObjectSchema(userProperties)))>>)
\* an object schema without a name below the root, and an inline one
profileSchema ==
  Schema(<<Prop("user", ObjectSchema("user",
             <<Prop("id", StringSchema),
               Prop("profile", NamelessObjectSchema(<<Prop("id", StringSchema),
                                                      Prop("name", StringSchema)>>))>>))>>)
\* the same with the nested schema named
namedProfileSchema ==
  Schema(<<Prop("user", ObjectSchema("user",
             <<Prop("id", StringSchema),
               Prop("profile", ObjectSchema("profile", <<Prop("id", StringSchema),
                                                          Prop("name", StringSchema)>>))>>))>>)
\* a root object that is written without an id and owns an identified user
teamSchema ==
  Schema(<<Prop("team", ObjectSchema("team",
             <<Prop("owner", ObjectSchema("user", userProperties)),
               Prop("label", StringSchema), Prop("size", NumberSchema)>>))>>)
\* users whose schema leaves the id undeclared, so that any id is accepted
looseUsersSchema == Schema(<<Prop("users", ArraySchema(ObjectSchema("user", <<Prop("name", StringSchema)>>)))>>)
namelessRootSchema == Schema(<<Prop("user", NamelessObjectSchema(userProperties))>>)
emptySchema == Schema(<<>>)
\* a valid custom entry first, then an object entry without a name
lateInvalidSchema ==
  Schema(<<Prop("customEntity", CustomSchema("customEntity")),
           Prop("user", NamelessObjectSchema(userProperties))>>)
\* the nested user schema declares no friends: the walk stops there
shallowSchema ==
  Schema(<<Prop("user", ObjectSchema("user",
             <<Prop("id", StringSchema), Prop("name", StringSchema),
               Prop("friends", ArraySchema(ObjectSchema("user",
                  <<Prop("id", StringSchema), Prop("name", StringSchema)>>)))>>))>>)

ann == Object(<< <<"id", Str("1")>>, <<"name", Str("ann")>>, <<"age", Num(30)>> >>)
bob == Object(<< <<"id", Str("1")>>, <<"name", Str("bob")>> >>)
carl == Object(<< <<"id", Str("2")>>, <<"name", Str("carl")>> >>)
noName == Object(<< <<"id", Str("1")>>, <<"age", Num(30)>> >>)
\* a stored user whose age is not a number
oldAnn == Object(<< <<"id", Str("1")>>, <<"name", Str("ann")>>, <<"age", Str("old")>> >>)
noId == Object(<< <<"age", Num(30)>> >>)
numericId == Object(<< <<"id", Num(1)>>, <<"name", Str("ann")>> >>)
\* A = {id:'1', friends:[B]}, B = {id:'2', friends:['1']}
jane == Object(<< <<"id", Str("2")>>, <<"name", Str("jane")>>, <<"friends", Arr(<<Str("1")>>)>> >>)
john == Object(<< <<"id", Str("1")>>, <<"name", Str("john")>>, <<"friends", Arr(<<jane>>)>> >>)
withProfile ==
  Object(<< <<"id", Str("1")>>,
            <<"profile", Object(<< <<"id", Str("p")>>, <<"name", Str("ann")>> >>)>> >>)
withInlineProfile ==
  Object(<< <<"id", Str("1")>>, <<"profile", Object(<< <<"name", Str("ann")>> >>)>> >>)

\* {id: 1, name: 'one'} and {id: '1', name: 'text'}
one == Object(<< <<"id", Num(1)>>, <<"name", Str("one")>> >>)
oneText == Object(<< <<"id", Str("1")>>, <<"name", Str("text")>> >>)
\* {owner: ann, label: 'x', extra: 1}: no id, no size, and a property the
\* schema does not declare
team == Object(<< <<"owner", ann>>, <<"label", Str("x")>>, <<"extra", Num(1)>> >>)

\* The arrays of at most MaxItems elements drawn from a set of values.
MaxItems == 2
ArraysOf(values) == {Arr(seq) : seq \in UNION {[1..n -> values] : n \in 0..MaxItems}}

\* For each schema, the data it is called with: <<data, schema>> pairs.
Inputs ==
  ({ann, bob, noName, noId, numericId, Null, Str("1"), Arr(<<ann, bob>>)} \X {userSchema})
  \cup ({ann, bob, noName, noId} \X {requiredSchema})
  \cup ({john, ann, Ref("cycA")} \X {circularSchema})
  \cup ({john, Ref("cycA")} \X {shallowSchema})
  \cup ((ArraysOf({ann, bob, carl, noName}) \cup {Arr(<<ann, noId>>), ann}) \X {usersSchema})
  \cup ((ArraysOf({Str("a"), Str("")}) \cup {Arr(<<ann>>)}) \X {tagsSchema})
  \cup ((ArraysOf({ann, bob, carl}) \cup {ann, noId, numericId, Null, Arr(<<ann, noId>>), john}) \X {customSchema})
  \cup ({withProfile, withInlineProfile} \X {profileSchema})
  \cup ({withProfile} \X {namedProfileSchema})
  \cup ({ann} \X {namelessRootSchema, emptySchema, Str("invalid schema")})
  \cup ({ann, Null} \X {lateInvalidSchema})
  \cup ({Null} \X {Str("invalid schema")})
  \cup ({Arr(<<>>), Arr(<<Arr(<<Str("a")>>)>>), Arr(<<Str("a")>>)} \X {nestedTagsSchema})
  \cup ({Arr(<<Bool(TRUE)>>)} \X {flagsSchema})
  \cup ({Arr(<<ann, carl>>), Arr(<<ann, noId>>)} \X {inlineUsersSchema})
  \cup ({team, noId} \X {teamSchema})
  \cup ({Arr(<<one, oneText>>), Arr(<<oneText, one>>), Arr(<<one, carl>>)} \X {looseUsersSchema})

\* NormalizedData a caller hands to denormalize without having normalized it.
Stored ==
  { [entities |-> NoEntities, result |-> Str("1")],
    [entities |-> [k \in {"user"} |-> EmptyPartition], result |-> Str("1")],
    [entities |-> [k \in {"user"} |-> EmptyPartition], result |-> Num(0)],
    [entities |-> [k \in {"post"} |-> [i \in {"1"} |-> ann]], result |-> Str("1")],
    [entities |-> [k \in {"user"} |-> [i \in {"2"} |-> ann]], result |-> Str("1")],
    [entities |-> [k \in {"user"} |-> [i \in {"1"} |-> ann]], result |-> Str("1")],
    [result |-> Str("1")],
    [entities |-> [k \in {"user"} |-> [i \in {"1"} |-> oldAnn]], result |-> Str("1")] }

HandlerNames == {"customEntity", "other"}

-----------------------------------------------------------------------------
(* The engine and the registry as a state machine: each step is one call   *)
(* of the public API, recorded in `call` with its inputs and its outcome.  *)

NumCallers == 3
Callers == 1..NumCallers

NoCall == [op |-> "none"]

\* The state after the modules are loaded; logger.ts builds its logger with
\* the minLevel the environment selects.
Loaded(level) ==
  /\ customSchemaHandlers = [k \in {} |-> "absent"]
  /\ call = NoCall
  /\ pc = [p \in Callers |-> "idle"]
  /\ input = [p \in Callers |-> NoCall]
  /\ queues = [k \in {} |-> <<>>]
  /\ denormalizationQueues = [k \in {} |-> <<>>]
  /\ outcome = [p \in Callers |-> NoCall]
  /\ store = [k \in {} |-> <<>>]
  /\ frames = <<>>
  /\ ret = NoCall
  /\ minLevel = level
  /\ logQueue = <<>>
  /\ isProcessing = FALSE
  /\ immediates = 0
  /\ passes = <<>>
  /\ emitted = <<>>
  /\ accepted = <<>>
  /\ logged = 0

Init == Loaded("debug")

\* types.ts: customSchemaHandlers[type] = handler
registerCustomSchemaHandler(type, handler) ==
  /\ customSchemaHandlers' = SetProp(customSchemaHandlers, type, handler)
  /\ call' = [op |-> "register", type |-> type, handler |-> handler]
  /\ UNCHANGED <<pc, input, queues, denormalizationQueues, outcome, walkVars, logVars>>

\* Object.keys(customSchemaHandlers).forEach(key => delete customSchemaHandlers[key])
RemoveFirstKeyOnly(handlers) ==
  IF DOMAIN handlers = {} THEN handlers
  ELSE LET first == CHOOSE k \in DOMAIN handlers : TRUE
       IN [k \in DOMAIN handlers \ {first} |-> handlers[k]]

RemoveAllKeys(handlers) == [k \in {} |-> "absent"]

clearCustomSchemaHandlers ==
  /\ customSchemaHandlers' = RemoveAllKeys(customSchemaHandlers)
  /\ call' = [op |-> "clear", removed |-> DOMAIN customSchemaHandlers]
  /\ UNCHANGED <<pc, input, queues, denormalizationQueues, outcome, walkVars, logVars>>

Normalize(data, schema) ==
  /\ call' = [op |-> "normalize", data |-> data, schema |-> schema,
              out |-> normalize(data, schema, customSchemaHandlers)]
  /\ UNCHANGED <<customSchemaHandlers, pc, input, queues, denormalizationQueues, outcome, walkVars, logVars>>

\* denormalize(normalize(data, schema), schema): the caller passes on what the
\* normalize call just returned.
DenormalizeResult ==
  /\ call.op = "normalize"
  /\ call.out.ok
  /\ call' = [op |-> "denormalize", from |-> "normalize", data |-> call.data,
              schema |-> call.schema, normalizedData |-> call.out.value,
              out |-> denormalize(call.out.value, call.schema)]
  /\ UNCHANGED <<customSchemaHandlers, pc, input, queues, denormalizationQueues, outcome, walkVars, logVars>>

\* denormalize of NormalizedData the caller wrote or received.
DenormalizeStored(normalizedData, schema) ==
  /\ call' = [op |-> "denormalize", from |-> "caller", data |-> Undefined,
              schema |-> schema, normalizedData |-> normalizedData,
              out |-> denormalize(normalizedData, schema)]
  /\ UNCHANGED <<customSchemaHandlers, pc, input, queues, denormalizationQueues, outcome, walkVars, logVars>>

\* The schemas stored NormalizedData is denormalized under.
StoredSchemas ==
  {userSchema, usersSchema, customSchema, emptySchema, tagsSchema, nestedTagsSchema}

Next ==
  \/ \E type \in HandlerNames, handler \in HandlerKinds : registerCustomSchemaHandler(type, handler)
  \/ clearCustomSchemaHandlers
  \/ \E in \in Inputs : Normalize(in[1], in[2])
  \/ DenormalizeResult
  \/ \E normalizedData \in Stored, schema \in StoredSchemas : DenormalizeStored(normalizedData, schema)

Spec == Init /\ [][Next]_vars

-----------------------------------------------------------------------------
(* Primitive bounds: normalize of {id: '1', age: v} and of {id: s} under   *)
(* every number and string schema with bounds drawn from a small range.    *)

MaxNumber == 3
MaxLen == 3

NumberSchemas ==
  {NumberSchema}
  \cup {[type |-> "number", minimum |-> lo] : lo \in 0..MaxNumber}
  \cup {[type |-> "number", maximum |-> hi] : hi \in 0..MaxNumber}
  \cup {[type |-> "number", minimum |-> lo, maximum |-> hi] : lo \in 0..MaxNumber, hi \in 0..MaxNumber}

StringSchemas ==
  {StringSchema}
  \cup {[type |-> "string", minLength |-> lo] : lo \in 0..MaxLen}
  \cup {[type |-> "string", maxLength |-> hi] : hi \in 0..MaxLen}
  \cup {[type |-> "string", minLength |-> lo, maxLength |-> hi] : lo \in 0..MaxLen, hi \in 0..MaxLen}

RECURSIVE Repeat(_, _)
Repeat(s, n) == IF n = 0 THEN "" ELSE s \o Repeat(s, n - 1)

ageSchema(numberSchema) ==
  Schema(<<Prop("user", ObjectSchema("user", <<Prop("id", StringSchema), Prop("age", numberSchema)>>))>>)
idSchema(stringSchema) ==
  Schema(<<Prop("user", ObjectSchema("user", <<Prop("id", stringSchema)>>))>>)

NormalizeNumber(v, numberSchema) ==
  Normalize(Object(<< <<"id", Str("1")>>, <<"age", Num(v)>> >>), ageSchema(numberSchema))

NormalizeString(n, stringSchema) ==
  Normalize(Object(<< <<"id", Str(Repeat("x", n))>> >>), idSchema(stringSchema))

\* String schemas with a pattern: one that matches the strings of a's, one
\* that matches every string, one that new RegExp refuses.
PatternSchemas ==
  {[type |-> "string", pattern |-> pattern] : pattern \in {"^a+$", ".*", "("}}
  \cup {[type |-> "string", minLength |-> 2, pattern |-> "^a+$"]}

PatternValues == {"", "a", "aa", "b", "ab"}

NormalizePattern(s, stringSchema) ==
  Normalize(Object(<< <<"id", Str(s)>> >>), idSchema(stringSchema))

\* tests/normalizer.test.ts: 17 against minimum 18, then 18 and 30
AgeExamples == {17, 18, 30}
adultSchema == [type |-> "number", minimum |-> 18]

NextBounds ==
  \/ \E v \in -1..(MaxNumber + 1), numberSchema \in NumberSchemas : NormalizeNumber(v, numberSchema)
  \/ \E n \in 0..(MaxLen + 1), stringSchema \in StringSchemas : NormalizeString(n, stringSchema)
  \/ \E v \in AgeExamples : NormalizeNumber(v, adultSchema)
  \/ \E s \in PatternValues, stringSchema \in PatternSchemas : NormalizePattern(s, stringSchema)
  \/ DenormalizeResult

SpecBounds == Init /\ [][NextBounds]_vars

-----------------------------------------------------------------------------
(* safeNormalize (normalizers/normalizer.ts) and generateLockKey           *)
(* (utils/utils.ts).  normalizationLock is an AsyncLock: per key, the      *)
(* first caller runs at once, later callers wait in the key's queue, and   *)
(* when the running callback's promise settles the lock settles the        *)
(* caller's promise and starts the next waiting callback.                  *)

\* JSON.stringify throws on a circular structure; every reference of Heap
\* lies on a cycle.
RECURSIVE HasRef(_)
HasRef(v) ==
  CASE v.kind = "ref" -> TRUE
    [] v.kind = "array" -> \E i \in 1..Len(v.val) : HasRef(v.val[i])
    [] v.kind = "object" -> \E k \in DOMAIN v.val : HasRef(v.val[k])
    [] OTHER -> FALSE

Quote(s) == "\"" \o s \o "\""

\* JSON.stringify(value): object keys are written in one fixed order
RECURSIVE Stringify(_)
RECURSIVE StringifyItems(_, _)
RECURSIVE StringifyMembers(_, _, _)
Stringify(v) ==
  CASE v.kind = "string" -> Quote(v.val)
    [] v.kind = "number" -> NumStr(v.val)
    [] v.kind = "boolean" -> IF v.val THEN "true" ELSE "false"
    [] v.kind = "array" -> "[" \o StringifyItems(v.val, 1) \o "]"
    [] v.kind = "object" -> "{" \o StringifyMembers(v.val, {k \in DOMAIN v.val : v.val[k] # Undefined}, TRUE) \o "}"
    [] OTHER -> "null"
StringifyItems(seq, i) ==
  IF i > Len(seq) THEN ""
  ELSE Stringify(seq[i]) \o (IF i < Len(seq) THEN "," ELSE "") \o StringifyItems(seq, i + 1)
StringifyMembers(f, keys, first) ==
  IF keys = {} THEN ""
  ELSE LET k == CHOOSE x \in keys : TRUE
       IN (IF first THEN "" ELSE ",") \o Quote(k) \o ":" \o Stringify(f[k])
          \o StringifyMembers(f, keys \ {k}, FALSE)

\* JSON.stringify(schema), the fields of an entity in the order the schemas
\* of the model write them
RECURSIVE StringifyEntity(_)
RECURSIVE StringifyProps(_, _)
RECURSIVE StringifyNames(_, _)
StringifyNames(names, i) ==
  IF i > Len(names) THEN ""
  ELSE Quote(names[i]) \o (IF i < Len(names) THEN "," ELSE "") \o StringifyNames(names, i + 1)
StringifyProps(props, i) ==
  IF i > Len(props) THEN ""
  ELSE Quote(props[i].key) \o ":" \o StringifyEntity(props[i].schema)
       \o (IF i < Len(props) THEN "," ELSE "") \o StringifyProps(props, i + 1)
StringifyEntity(e) ==
  IF Has(e, "kind") THEN Stringify(e)
  ELSE "{" \o Quote("type") \o ":" \o Quote(e.type)
       \o (IF Has(e, "name") THEN "," \o Quote("name") \o ":" \o Quote(e.name) ELSE "")
       \o (IF Has(e, "properties")
           THEN "," \o Quote("properties") \o ":{" \o StringifyProps(e.properties, 1) \o "}" ELSE "")
       \o (IF Has(e, "items") THEN "," \o Quote("items") \o ":" \o StringifyEntity(e.items) ELSE "")
       \o (IF Has(e, "required")
           THEN "," \o Quote("required") \o ":[" \o StringifyNames(e.required, 1) \o "]" ELSE "")
       \o (IF Has(e, "minLength") THEN "," \o Quote("minLength") \o ":" \o NumStr(e.minLength) ELSE "")
       \o (IF Has(e, "maxLength") THEN "," \o Quote("maxLength") \o ":" \o NumStr(e.maxLength) ELSE "")
       \o (IF Has(e, "pattern") THEN "," \o Quote("pattern") \o ":" \o Quote(e.pattern) ELSE "")
       \o (IF Has(e, "minimum") THEN "," \o Quote("minimum") \o ":" \o NumStr(e.minimum) ELSE "")
       \o (IF Has(e, "maximum") THEN "," \o Quote("maximum") \o ":" \o NumStr(e.maximum) ELSE "")
StringifySchema(schema) ==
  IF Has(schema, "entries") THEN "{" \o StringifyProps(schema.entries, 1) \o "}"
  ELSE Stringify(schema)

\* crypto.createHash('sha256').update(text).digest('hex'), taken to be free
\* of collisions: the digest is named by the text it was computed from.
Sha256(text) == "sha256(" \o text \o ")"

generateLockKey_schemaOnly(data, schema) == Sha256(StringifySchema(schema))

generateLockKey(data, schema) == Sha256(Stringify(data)) \o "|" \o Sha256(StringifySchema(schema))

\* generateLockKey throws (a TypeError) before the lock is asked for
KeyThrows(data) == HasRef(data) \/ data.kind = "undefined"

LockKeyOf(in) == generateLockKey(in.data, in.schema)

\* AsyncLock.acquire: !this.queues[key]
LockIsFree_always(key) == TRUE

LockIsFree(key) == key \notin DOMAIN queues

\* The body of the callback safeNormalize passes to acquire: it runs to its
\* end without yielding, and what it returns or throws is what the caller's
\* promise will settle to.
RunBody(in) == normalize(in.data, in.schema, customSchemaHandlers)

SafeInputs ==
  { [data |-> ann, schema |-> userSchema],
    [data |-> bob, schema |-> userSchema],
    [data |-> ann, schema |-> customSchema],
    [data |-> Ref("cycA"), schema |-> shallowSchema] }

\* A caller calls safeNormalize(data, schema).
safeNormalize(p, in) ==
  /\ pc[p] = "idle"
  /\ input' = [input EXCEPT ![p] = in]
  /\ IF KeyThrows(in.data)
     THEN /\ pc' = [pc EXCEPT ![p] = "settled"]
          /\ outcome' = [outcome EXCEPT ![p] =
               [ok |-> FALSE, depth |-> 0,
                error |-> Throw("TypeError", "Converting circular structure to JSON",
                                [k \in {} |-> Undefined]).error]]
          /\ UNCHANGED queues
     ELSE LET Acquire(lockKey) ==
                IF LockIsFree(lockKey)
                THEN /\ queues' = SetProp(queues, lockKey, <<>>)
                     /\ pc' = [pc EXCEPT ![p] = "holding"]
                     /\ outcome' = [outcome EXCEPT ![p] = RunBody(in)]
                ELSE /\ queues' = [queues EXCEPT ![lockKey] = Append(@, p)]
                     /\ pc' = [pc EXCEPT ![p] = "waiting"]
                     /\ UNCHANGED outcome
          IN Acquire(LockKeyOf(in))
  /\ UNCHANGED <<customSchemaHandlers, call, denormalizationQueues, walkVars, logVars>>

\* A lock that passes the key on only when the callback resolved: after a
\* rejection the caller's promise settles and the key stays taken.
Release_resolvedOnly(p) ==
  /\ pc[p] = "holding"
  /\ LET Released(lockKey) ==
           IF ~outcome[p].ok
           THEN /\ pc' = [pc EXCEPT ![p] = "settled"]
                /\ UNCHANGED <<queues, outcome>>
           ELSE IF lockKey \in DOMAIN queues /\ Len(queues[lockKey]) > 0
           THEN LET next == Head(queues[lockKey]) IN
                /\ queues' = [queues EXCEPT ![lockKey] = Tail(@)]
                /\ pc' = [pc EXCEPT ![p] = "settled", ![next] = "holding"]
                /\ outcome' = [outcome EXCEPT ![next] = RunBody(input[next])]
           ELSE /\ queues' = [k \in DOMAIN queues \ {lockKey} |-> queues[k]]
                /\ pc' = [pc EXCEPT ![p] = "settled"]
                /\ UNCHANGED outcome
     IN Released(LockKeyOf(input[p]))
  /\ UNCHANGED <<customSchemaHandlers, call, input, denormalizationQueues, walkVars, logVars>>

\* The promise of the running callback settles: the lock settles the caller's
\* promise, and starts the next callback waiting for the key or forgets the key.
Release(p) ==
  /\ pc[p] = "holding"
  /\ LET Released(lockKey) ==
           IF lockKey \in DOMAIN queues /\ Len(queues[lockKey]) > 0
           THEN LET next == Head(queues[lockKey]) IN
                /\ queues' = [queues EXCEPT ![lockKey] = Tail(@)]
                /\ pc' = [pc EXCEPT ![p] = "settled", ![next] = "holding"]
                /\ outcome' = [outcome EXCEPT ![next] = RunBody(input[next])]
           ELSE /\ queues' = [k \in DOMAIN queues \ {lockKey} |-> queues[k]]
                /\ pc' = [pc EXCEPT ![p] = "settled"]
                /\ UNCHANGED outcome
     IN Released(LockKeyOf(input[p]))
  /\ UNCHANGED <<customSchemaHandlers, call, input, denormalizationQueues, walkVars, logVars>>

\* Every promise has settled and the callers start over.
Forget ==
  /\ \A p \in Callers : pc[p] = "settled"
  /\ pc' = [p \in Callers |-> "idle"]
  /\ input' = [p \in Callers |-> NoCall]
  /\ outcome' = [p \in Callers |-> NoCall]
  /\ UNCHANGED <<customSchemaHandlers, call, queues, denormalizationQueues, walkVars, logVars>>

\* Handlers are registered and cleared while no traversal is in flight.
Quiet == \A p \in Callers : pc[p] = "idle"

NextSafe ==
  \/ \E p \in Callers, in \in SafeInputs : safeNormalize(p, in)
  \/ \E p \in Callers : Release(p)
  \/ Forget
  \/ Quiet /\ registerCustomSchemaHandler("customEntity", "entityId")
  \/ Quiet /\ clearCustomSchemaHandlers

SpecSafe == Init /\ [][NextSafe]_vars

\* Release(p) as it shows in pc: the holder p settles, and at most one other
\* caller, the head of the queue of its key, becomes the holder.  Release(p)
\* is enabled exactly where Settles(p) is, and the steps of NextSafe that are
\* Settles(p) steps are the Release(p) steps.
Settles(p) ==
  /\ pc[p] = "holding"
  /\ \E next \in Callers : pc' = [pc EXCEPT ![next] = "holding", ![p] = "settled"]

\* The callback passed to acquire has no await in it: once it has run, its
\* promise settles in a microtask of the same turn of the event loop, so a
\* holder that can release does release.
SpecSafeFair == SpecSafe /\ \A p \in Callers : WF_pc(Settles(p))

-----------------------------------------------------------------------------
(* safeDenormalize: the same lock discipline on a lock of its own, under   *)
(* the key JSON.stringify(normalizedData.result).                          *)

\* const lockKey = JSON.stringify(normalizedData.result)
DenormalizeLockKeyOf(in) == Stringify(in.normalizedData.result)

\* The body of the callback safeDenormalize passes to acquire.
RunDenormalizeBody(in) == denormalize(in.normalizedData, in.schema)

\* Stores with the result '1' that differ in their entities, one of them
\* under two schemas, and a store with another result.
SafeDenormalizeInputs ==
  { [schema |-> userSchema,
     normalizedData |-> [entities |-> [k \in {"user"} |-> [i \in {"1"} |-> ann]], result |-> Str("1")]],
    [schema |-> userSchema,
     normalizedData |-> [entities |-> [k \in {"user"} |-> [i \in {"2"} |-> ann]], result |-> Str("1")]],
    [schema |-> usersSchema,
     normalizedData |-> [entities |-> [k \in {"user"} |-> [i \in {"1"} |-> ann]], result |-> Str("1")]],
    [schema |-> userSchema,
     normalizedData |-> [entities |-> [k \in {"user"} |-> EmptyPartition], result |-> Num(0)]] }

\* A caller calls safeDenormalize(normalizedData, schema).
safeDenormalize(p, in) ==
  /\ pc[p] = "idle"
  /\ input' = [input EXCEPT ![p] = in]
  /\ LET Acquire(lockKey) ==
           IF lockKey \notin DOMAIN denormalizationQueues
           THEN /\ denormalizationQueues' = SetProp(denormalizationQueues, lockKey, <<>>)
                /\ pc' = [pc EXCEPT ![p] = "holding"]
                /\ outcome' = [outcome EXCEPT ![p] = RunDenormalizeBody(in)]
           ELSE /\ denormalizationQueues' = [denormalizationQueues EXCEPT ![lockKey] = Append(@, p)]
                /\ pc' = [pc EXCEPT ![p] = "waiting"]
                /\ UNCHANGED outcome
     IN Acquire(DenormalizeLockKeyOf(in))
  /\ UNCHANGED <<customSchemaHandlers, call, queues, walkVars, logVars>>

\* The promise of the running callback settles.
ReleaseDenormalize(p) ==
  /\ pc[p] = "holding"
  /\ LET Released(lockKey) ==
           IF lockKey \in DOMAIN denormalizationQueues /\ Len(denormalizationQueues[lockKey]) > 0
           THEN LET next == Head(denormalizationQueues[lockKey]) IN
                /\ denormalizationQueues' = [denormalizationQueues EXCEPT ![lockKey] = Tail(@)]
                /\ pc' = [pc EXCEPT ![p] = "settled", ![next] = "holding"]
                /\ outcome' = [outcome EXCEPT ![next] = RunDenormalizeBody(input[next])]
           ELSE /\ denormalizationQueues' =
                     [k \in DOMAIN denormalizationQueues \ {lockKey} |-> denormalizationQueues[k]]
                /\ pc' = [pc EXCEPT ![p] = "settled"]
                /\ UNCHANGED outcome
     IN Released(DenormalizeLockKeyOf(input[p]))
  /\ UNCHANGED <<customSchemaHandlers, call, input, queues, walkVars, logVars>>

NextSafeDenormalize ==
  \/ \E p \in Callers, in \in SafeDenormalizeInputs : safeDenormalize(p, in)
  \/ \E p \in Callers : ReleaseDenormalize(p)
  \/ Forget

SpecSafeDenormalize == Init /\ [][NextSafeDenormalize]_vars

\* The (normalizedData, schema) of a call, by its two serializations: the
\* store with its entities and its result, and the schema.
DenormalizeFingerprint(in) ==
  <<in.normalizedData.entities, Stringify(in.normalizedData.result), StringifySchema(in.schema)>>

\* C17: two concurrent safeDenormalize calls are serialized only when their
\* (normalizedData, schema) fingerprints are identical: a caller waits only
\* behind a holder with its own normalizedData and its own schema, never behind
\* one that differs in the entities or in the schema.
C17_KeyedByBothInputs ==
  \A p \in Callers :
    pc[p] = "waiting" =>
      \E q \in Callers \ {p} :
        pc[q] = "holding" /\ DenormalizeFingerprint(input[q]) = DenormalizeFingerprint(input[p])

\* A call waits behind a call with the same result and other entities.
C17_WaitsBehindOtherEntities ==
  \E p, q \in Callers :
    /\ pc[p] = "waiting" /\ pc[q] = "holding"
    /\ input[p].normalizedData.result = input[q].normalizedData.result
    /\ input[p].normalizedData.entities # input[q].normalizedData.entities
    /\ input[p].schema = input[q].schema
    /\ \A r \in Callers \ {p} : pc[r] = "holding" => DenormalizeFingerprint(input[r]) # DenormalizeFingerprint(input[p])

-----------------------------------------------------------------------------
(* One normalize call, statement by statement.  The entities object is the *)
(* variable store; frames is the stack of normalizeEntity activations,    *)
(* each with its arguments, the loop index it stands at and what it has    *)
(* gathered so far.  A step runs the activation on top of the stack up to  *)
(* its next call of normalizeEntity, its next write to the store, or its   *)
(* return; a throw unwinds the whole stack.                                *)

Activation(entity, schema) ==
  [index |-> 1, entity |-> entity, schema |-> schema, phase |-> "enter", acc |-> <<>>]

Becomes(next) ==
  /\ store' = next.store
  /\ frames' = next.frames
  /\ ret' = next.ret

Caller(stack) == stack[Len(stack)]
Below(stack) == SubSeq(stack, 1, Len(stack) - 1)

\* throw error: no activation catches, normalize's catch block is next
Raise(error, entities) ==
  [store |-> entities, frames |-> <<>>, ret |-> Fail(error, entities, 0)]

\* return result: the calling activation goes on with it, normalizeObject
\* with its next property, array.map's callback with its checks.
Deliver(callers, result, entities) ==
  IF callers = <<>>
  THEN [store |-> entities, frames |-> <<>>, ret |-> Done(result, entities, 0)]
  ELSE LET caller == Caller(callers) IN
  IF isObjectSchemaEntity(caller.schema)
  THEN [store |-> entities,
        frames |-> Append(Below(callers),
                     [caller EXCEPT !.index = @ + 1,
                                    !.acc = SetProp(@, caller.schema.properties[caller.index].key, result)]),
        ret |-> NoCall]
  ELSE LET item == Deref(caller.entity).val[caller.index] IN
  IF IsArray(result)
  THEN Raise(NormError("Nested arrays are not supported",
                       [index |-> caller.index - 1, item |-> item, schema |-> caller.schema]),
             entities)
  ELSE IF ~isEntityID(result)
  THEN Raise(NormError("Array item normalization did not result in an EntityID",
                       [index |-> caller.index - 1, item |-> item, result |-> result,
                        schema |-> caller.schema]), entities)
  ELSE [store |-> entities,
        frames |-> Append(Below(callers),
                     [caller EXCEPT !.index = @ + 1, !.acc = Append(@, result)]),
        ret |-> NoCall]

\* normalizeCustomEntity up to its first write: the handler call, the
\* partition and the checks of what the handler returned.
EnterCustom(top, handlers) ==
  LET entity == top.entity
      schema == top.schema
  IN
  IF ~Has(schema, "name") \/ schema.name = ""
  THEN Raise(NormError("Custom schema must have a name", [schema |-> schema]), store)
  ELSE LET customHandler == getCustomSchemaHandler(handlers, schema.name) IN
  IF customHandler = "absent"
  THEN Raise(NormError("No custom handler found for schema type", [schemaType |-> schema.name]),
             store)
  ELSE LET Check(called) ==
  IF called.threw
  THEN IF Has(called, "message")
       THEN Raise(Throw("TypeError", called.message, [schema |-> schema]), store)
       ELSE Raise([error |-> called.value], store)
  ELSE LET result == called.value
           withPartition == EnsurePartition(store, schema.name)
           context == [result |-> result, entity |-> entity, schema |-> schema]
       IN
  IF IsArray(entity) /\ ~IsArray(result)
  THEN Raise(NormError("Custom handler must return an array for array input", context),
             withPartition)
  ELSE IF IsArray(entity) /\ \E i \in 1..Len(result.val) : ~isEntityID(result.val[i])
  THEN Raise(NormError("Custom handler must return an array of EntityIDs for array input",
                       context), withPartition)
  ELSE IF IsArray(entity) /\ Len(result.val) # Len(Deref(entity).val)
  THEN Raise(NormError("Custom handler must return an array of EntityIDs for array input",
                       context), withPartition)
  ELSE IF ~IsArray(entity) /\ IsArray(result)
  THEN Raise(NormError("Custom handler must return a single EntityID for non-array input",
                       context), withPartition)
  ELSE IF ~IsArray(entity) /\ ~isEntityID(result)
  THEN Raise(NormError("Custom handler must return an EntityID for non-array input",
                       context), withPartition)
  ELSE [store |-> withPartition,
        frames |-> Append(Below(frames), [top EXCEPT !.phase = "store", !.acc = result]),
        ret |-> NoCall]
  IN Check(CallHandler(customHandler, entity, schema, store))

\* normalizeEntity's dispatch and the callee's first statements
EnterEntity ==
  /\ frames # <<>>
  /\ Caller(frames).phase = "enter"
  /\ LET top == Caller(frames)
          entity == top.entity
          schema == top.schema
     IN Becomes(
          IF isCustomSchemaEntity(schema) THEN EnterCustom(top, customSchemaHandlers)
          ELSE IF isObjectSchemaEntity(schema)
          THEN IF Falsy(entity) \/ TypeOf(entity) # "object" \/ IsArray(entity)
               THEN Raise(NormError("Invalid entity for object schema",
                                    [expectedType |-> "object", receivedType |-> TypeOf(entity)]),
                          store)
               ELSE [store |-> EnsurePartition(store,
                                 IF Has(schema, "name") /\ schema.name # "" THEN schema.name
                                 ELSE "unnamed"),
                     frames |-> Append(Below(frames),
                                  [top EXCEPT !.phase = "properties", !.acc = EmptyPartition]),
                     ret |-> NoCall]
          ELSE IF isArraySchemaEntity(schema)
          THEN IF ~IsArray(entity)
               THEN Raise(NormError("Invalid entity for array schema",
                                    [expectedType |-> "array", receivedType |-> TypeOf(entity),
                                     schema |-> schema]), store)
               ELSE [store |-> store,
                     frames |-> Append(Below(frames), [top EXCEPT !.phase = "items"]),
                     ret |-> NoCall]
          ELSE LET Primitive(p) ==
                     IF p.ok THEN Deliver(Below(frames), p.result, store) ELSE Raise(p, store)
               IN Primitive(normalizePrimitive(entity, schema)))
  /\ UNCHANGED <<customSchemaHandlers, call, pc, input, queues, denormalizationQueues, outcome, logVars>>

\* One turn of normalizeObject's loop over Object.entries(schema.properties)
VisitProperty ==
  /\ frames # <<>>
  /\ Caller(frames).phase = "properties"
  /\ Caller(frames).index <= Len(Caller(frames).schema.properties)
  /\ LET top == Caller(frames)
          key == top.schema.properties[top.index].key
          propertySchema == top.schema.properties[top.index].schema
          id == Get(top.entity, "id")
     IN Becomes(
          IF HasProp(top.entity, key)
          THEN [store |-> store,
                frames |-> Append(frames, Activation(Get(top.entity, key), propertySchema)),
                ret |-> NoCall]
          ELSE IF id # Undefined /\ Has(top.schema, "required")
                  /\ \E j \in 1..Len(top.schema.required) : top.schema.required[j] = key
          THEN Raise(NormError("Missing required property",
                               [entityName |-> IF Has(top.schema, "name") /\ top.schema.name # ""
                                               THEN top.schema.name ELSE "unnamed",
                                id |-> id, missingProperty |-> key]), store)
          ELSE [store |-> store,
                frames |-> Append(Below(frames), [top EXCEPT !.index = @ + 1]),
                ret |-> NoCall])
  /\ UNCHANGED <<customSchemaHandlers, call, pc, input, queues, denormalizationQueues, outcome, logVars>>

\* After the loop: entities[entityName][id] = normalizedEntity; return id,
\* or return normalizedEntity when the object has no id.
StoreObject ==
  /\ frames # <<>>
  /\ Caller(frames).phase = "properties"
  /\ Caller(frames).index > Len(Caller(frames).schema.properties)
  /\ LET top == Caller(frames)
          entityName == IF Has(top.schema, "name") /\ top.schema.name # "" THEN top.schema.name
                        ELSE "unnamed"
          id == Get(top.entity, "id")
     IN Becomes(
          IF id = Undefined THEN Deliver(Below(frames), Obj(top.acc), store)
          ELSE Deliver(Below(frames), id, StoreEntity(store, entityName, id, Obj(top.acc))))
  /\ UNCHANGED <<customSchemaHandlers, call, pc, input, queues, denormalizationQueues, outcome, logVars>>

\* One turn of array.map in normalizeArray
VisitItem ==
  /\ frames # <<>>
  /\ Caller(frames).phase = "items"
  /\ Caller(frames).index <= Len(Deref(Caller(frames).entity).val)
  /\ LET top == Caller(frames)
     IN Becomes([store |-> store,
                 frames |-> Append(frames, Activation(Deref(top.entity).val[top.index],
                                                      top.schema.items)),
                 ret |-> NoCall])
  /\ UNCHANGED <<customSchemaHandlers, call, pc, input, queues, denormalizationQueues, outcome, logVars>>

\* array.map returns the list of ids
ReturnArray ==
  /\ frames # <<>>
  /\ Caller(frames).phase = "items"
  /\ Caller(frames).index > Len(Deref(Caller(frames).entity).val)
  /\ Becomes(Deliver(Below(frames), Arr(Caller(frames).acc), store))
  /\ UNCHANGED <<customSchemaHandlers, call, pc, input, queues, denormalizationQueues, outcome, logVars>>

\* normalizeCustomEntity's writes: one turn of result.forEach for an array,
\* the single assignment otherwise, and the return of the handler's result.
StoreCustomItem ==
  /\ frames # <<>>
  /\ Caller(frames).phase = "store"
  /\ LET top == Caller(frames)
          name == top.schema.name
     IN Becomes(
          IF ~IsArray(top.entity)
          THEN Deliver(Below(frames), top.acc, StoreEntity(store, name, top.acc, top.entity))
          ELSE IF top.index <= Len(top.acc.val)
          THEN [store |-> StoreEntity(store, name, top.acc.val[top.index],
                                      Deref(top.entity).val[top.index]),
                frames |-> Append(Below(frames), [top EXCEPT !.index = @ + 1]),
                ret |-> NoCall]
          ELSE Deliver(Below(frames), top.acc, store))
  /\ UNCHANGED <<customSchemaHandlers, call, pc, input, queues, denormalizationQueues, outcome, logVars>>

\* normalize up to its call of normalizeEntity: the schema and data checks,
\* const entities = {}, and the first activation.
StartNormalize(data, schema) ==
  /\ frames = <<>>
  /\ call' = [op |-> "start", data |-> data, schema |-> schema]
  /\ store' = NoEntities
  /\ IF \/ ~validateSchema(schema).ok
        \/ Falsy(data) \/ TypeOf(data) # "object"
        \/ Len(schema.entries) = 0 \/ schema.entries[1].key = ""
     THEN /\ frames' = <<>>
          /\ ret' = normalize(data, schema, customSchemaHandlers)
     ELSE /\ frames' = <<Activation(data, schema.entries[1].schema)>>
          /\ ret' = NoCall
  /\ UNCHANGED <<customSchemaHandlers, pc, input, queues, denormalizationQueues, outcome, logVars>>

\* The calls whose store is followed write by write.
WalkInputs ==
  ({Arr(<<ann, carl>>), Arr(<<ann, bob>>), Arr(<<carl, noName>>), Arr(<<ann, noId>>), ann, Null}
     \X {usersSchema})
  \cup ({ann, noName} \X {requiredSchema})
  \cup ({john, Ref("cycA")} \X {circularSchema})
  \cup ({withProfile, withInlineProfile} \X {profileSchema})
  \cup ({team} \X {teamSchema})
  \cup ({Arr(<<Str("a"), Str("")>>)} \X {tagsSchema, nestedTagsSchema})
  \cup ({Arr(<<ann, carl>>), Arr(<<ann, bob>>), Arr(<<ann, noId>>), john, noId} \X {customSchema})
  \cup ({Arr(<<one, oneText>>)} \X {looseUsersSchema})
  \cup ({ann} \X {namelessRootSchema, emptySchema})

NextWalk ==
  \/ \E in \in WalkInputs : StartNormalize(in[1], in[2])
  \/ EnterEntity
  \/ VisitProperty
  \/ StoreObject
  \/ VisitItem
  \/ ReturnArray
  \/ StoreCustomItem
  \/ \E handler \in HandlerKinds :
       frames = <<>> /\ registerCustomSchemaHandler("customEntity", handler)

SpecWalk == Init /\ [][NextWalk]_vars

-----------------------------------------------------------------------------
(* The logger (logger.ts).  The exported logger is built with asyncLogging *)
(* true: log() pushes the entry and schedules processLogQueue with         *)
(* setImmediate.  A pass of processLogQueue takes a batch off the queue    *)
(* and, entry by entry, formats it, hands it to logToConsole and awaits    *)
(* writeToFile; between two entries other code runs, log() included.       *)

MaxLogs == 3
batchSize == 2

levels == <<"debug", "info", "warn", "error">>

\* levels.indexOf(level)
indexOf(level) == CHOOSE i \in 1..Len(levels) : levels[i] = level

shouldLog(level) == indexOf(level) >= indexOf(minLevel)

\* The levels the library logs at, and the contexts: { lockKey }, and a
\* context that carries caller data with a reference cycle, as handleError
\* passes it on.
LogLevels == {"debug", "error"}
LogContexts == {Object(<< <<"lockKey", Str("k")>> >>), Object(<< <<"entity", Ref("cycA")>> >>)}

\* The n-th entry created; n stands for the entry's identity.
createLogEntry(level, context, n) == [id |-> n, context |-> context, level |-> level]

toUpperCase(level) ==
  CASE level = "debug" -> "DEBUG"
    [] level = "info" -> "INFO"
    [] level = "warn" -> "WARN"
    [] OTHER -> "ERROR"

\* JSON.stringify throws a TypeError on a circular structure
formatLogEntry(entry) ==
  IF HasRef(entry.context) THEN Raised("Converting circular structure to JSON")
  ELSE Returned("[" \o NumStr(entry.id) \o "] " \o toUpperCase(entry.level) \o ": message"
                \o "\nContext: " \o Stringify(entry.context) \o "\n")

log(level, context) ==
  /\ logged < MaxLogs
  /\ logged' = logged + 1
  /\ IF ~shouldLog(level)
     THEN UNCHANGED <<logQueue, accepted, immediates>>
     ELSE LET entry == createLogEntry(level, context, logged + 1)
          IN /\ logQueue' = Append(logQueue, entry)
             /\ accepted' = Append(accepted, entry)
             /\ immediates' = immediates + 1
  /\ UNCHANGED <<customSchemaHandlers, call, pc, input, queues, denormalizationQueues, outcome,
                 walkVars, minLevel, isProcessing, passes, emitted>>

Without(seq, i) == SubSeq(seq, 1, i - 1) \o SubSeq(seq, i + 1, Len(seq))

\* A setImmediate callback runs processLogQueue up to its first await: the
\* guard, the flag, the splice, and the first entry of the batch.  When
\* formatLogEntry throws, the pass ends there with its promise rejected.
processLogQueue ==
  /\ immediates > 0
  /\ immediates' = immediates - 1
  /\ IF isProcessing \/ logQueue = <<>>
     THEN UNCHANGED <<logQueue, isProcessing, passes, emitted>>
     ELSE LET n == IF Len(logQueue) < batchSize THEN Len(logQueue) ELSE batchSize
              batch == SubSeq(logQueue, 1, n)
          IN /\ isProcessing' = TRUE
             /\ logQueue' = SubSeq(logQueue, n + 1, Len(logQueue))
             /\ IF formatLogEntry(Head(batch)).threw
                THEN UNCHANGED <<passes, emitted>>
                ELSE /\ emitted' = Append(emitted, Head(batch))
                     /\ passes' = Append(passes, Tail(batch))
  /\ UNCHANGED <<customSchemaHandlers, call, pc, input, queues, denormalizationQueues, outcome,
                 walkVars, minLevel, accepted, logged>>

\* await writeToFile(...) settles for the i-th pass: the next entry of its
\* batch up to the next await, or the end of the pass, which clears the flag
\* and schedules another pass when the queue is not empty.
ResumePass(i) ==
  /\ i \in 1..Len(passes)
  /\ IF passes[i] = <<>>
     THEN /\ isProcessing' = FALSE
          /\ immediates' = IF Len(logQueue) > 0 THEN immediates + 1 ELSE immediates
          /\ passes' = Without(passes, i)
          /\ UNCHANGED emitted
     ELSE IF formatLogEntry(Head(passes[i])).threw
     THEN /\ passes' = Without(passes, i)
          /\ UNCHANGED <<isProcessing, immediates, emitted>>
     ELSE /\ emitted' = Append(emitted, Head(passes[i]))
          /\ passes' = [passes EXCEPT ![i] = Tail(@)]
          /\ UNCHANGED <<isProcessing, immediates>>
  /\ UNCHANGED <<customSchemaHandlers, call, pc, input, queues, denormalizationQueues, outcome,
                 walkVars, minLevel, logQueue, accepted, logged>>

\* minLevel: process.env.NODE_ENV === 'production' ? 'warn' : 'debug'
InitLogger == \E level \in {"debug", "warn"} : Loaded(level)

NextLogger ==
  \/ \E level \in LogLevels, context \in LogContexts : log(level, context)
  \/ processLogQueue
  \/ \E i \in 1..MaxLogs : ResumePass(i)

SpecLogger == InitLogger /\ [][NextLogger]_vars

\* The event loop runs every setImmediate callback, and every awaited
\* writeToFile settles (it catches its own errors).
SpecLoggerFair ==
  /\ SpecLogger
  /\ WF_logVars(processLogQueue)
  /\ \A i \in 1..MaxLogs : WF_logVars(ResumePass(i))

-----------------------------------------------------------------------------
(* Properties of normalize and denormalize, stated over the most recent    *)
(* call.                                                                   *)

\* The root schema entity of a call: Object.keys(schema)[0] and its value.
RootEntity(schema) == schema.entries[1].schema

Rooted(schema) == Has(schema, "entries") /\ Len(schema.entries) > 0

\* x conforms to the schema entity e, and every object in x carries an id:
\* a primitive has the schema's type, an object has an id and only
\* properties the schema declares, each conforming, an array has conforming
\* items.  Nothing conforms to a custom entity, and x is written inline.
RECURSIVE Conforms(_, _)
Conforms(x, e) ==
  IF x.kind = "ref" THEN FALSE
  ELSE IF isPrimitiveSchemaEntity(e) THEN x.kind = e.type
  ELSE IF isObjectSchemaEntity(e)
  THEN /\ x.kind = "object"
       /\ "id" \in DOMAIN x.val
       /\ \A k \in DOMAIN x.val :
            \E i \in 1..Len(e.properties) :
              e.properties[i].key = k /\ Conforms(x.val[k], e.properties[i].schema)
  ELSE IF isArraySchemaEntity(e)
  THEN x.kind = "array" /\ \A i \in 1..Len(x.val) : Conforms(x.val[i], e.items)
  ELSE FALSE

RoundTripped == call.op = "denormalize" /\ call.from = "normalize"

\* C1: round-trip law.  For every valid schema s and every data value x that
\* conforms to s and in which every object carries an id,
\* denormalize(normalize(x, s), s) is structurally equal to x.
C1_RoundTrip ==
  (RoundTripped /\ Conforms(call.data, RootEntity(call.schema)))
    => (call.out.ok /\ call.out.value = call.data)

\* The README's users schema, whose root entry is an array of user objects:
\* normalize accepts [{id: '1', name: 'ann', age: 30}] and denormalize of
\* what it returned throws.
C1_RootArrayFails ==
  /\ RoundTripped
  /\ call.schema = usersSchema
  /\ call.data = Arr(<<ann>>)
  /\ Conforms(call.data, RootEntity(call.schema))
  /\ ~call.out.ok
  /\ call.out.error.message = "Expected array for entity: unknown:1"

\* The last index of array at which the element has the same id as at i.
LastOccurrence(array, i) ==
  CHOOSE j \in i..Len(array) :
    /\ Get(array[j], "id") = Get(array[i], "id")
    /\ \A k \in (j + 1)..Len(array) : Get(array[k], "id") # Get(array[i], "id")

\* What normalizing the one element on its own stores for it.
NormalizedAlone(element, itemSchema) ==
  normalizeEntity(element, itemSchema, NoEntities, customSchemaHandlers)
    .entities[itemSchema.name][KeyString(Get(element, "id"))]

ArrayOfEntities ==
  /\ call.op = "normalize"
  /\ call.out.ok
  /\ Rooted(call.schema)
  /\ isArraySchemaEntity(RootEntity(call.schema))
  /\ isObjectSchemaEntity(RootEntity(call.schema).items)
  /\ Has(RootEntity(call.schema).items, "name")
  /\ Len(call.data.val) > 0
  /\ \A i, j \in 1..Len(call.data.val) :
       KeyString(Get(call.data.val[i], "id")) = KeyString(Get(call.data.val[j], "id"))
         => Get(call.data.val[i], "id") = Get(call.data.val[j], "id")

\* C2: identity dedup, last write wins.  Normalizing an array with two or
\* more elements of the same id under one entity type leaves exactly one
\* store entry for that (type, id): the partition has one key per distinct
\* id, and the entry is the normalized value of the last occurrence.
C2_LastWriteWins ==
  ArrayOfEntities =>
    LET array == call.data.val
        itemSchema == RootEntity(call.schema).items
        partition == call.out.value.entities[itemSchema.name]
    IN /\ DOMAIN partition = {KeyString(Get(array[i], "id")) : i \in 1..Len(array)}
       /\ \A i \in 1..Len(array) :
            partition[KeyString(Get(array[i], "id"))]
              = NormalizedAlone(array[LastOccurrence(array, i)], itemSchema)

\* [ann, bob] share id '1': the store holds bob's fields only, without ann's age.
C2_Witness ==
  /\ ArrayOfEntities
  /\ call.data = Arr(<<ann, bob>>)
  /\ DOMAIN call.out.value.entities["user"] = {"1"}
  /\ call.out.value.entities["user"]["1"] = Object(<< <<"id", Str("1")>>, <<"name", Str("bob")>> >>)

\* The properties the required list of an object schema names and the
\* object lacks.
MissingRequired(entity, schema) ==
  IF Has(schema, "required")
  THEN {schema.required[j] : j \in 1..Len(schema.required)} \ DOMAIN entity.val
  ELSE {}

ObjectUnderRequired ==
  /\ call.op = "normalize"
  /\ Rooted(call.schema)
  /\ validateSchema(call.schema).ok
  /\ isObjectSchemaEntity(RootEntity(call.schema))
  /\ call.data.kind = "object"
  /\ MissingRequired(call.data, RootEntity(call.schema)) # {}

\* C3: required-property enforcement.  For every object schema with a
\* required list and every input object, with or without an id, that lacks a
\* property named in the list, normalize fails with a NormalizationError
\* whose context names the missing property.
C3_RequiredEnforced ==
  ObjectUnderRequired =>
    /\ ~call.out.ok
    /\ call.out.error.name = "NormalizationError"
    /\ "missingProperty" \in DOMAIN call.out.error.context
    /\ call.out.error.context.missingProperty
         \in MissingRequired(call.data, RootEntity(call.schema))

\* {age: 30}, without id and without the required name, is returned inline.
C3_IdlessAccepted ==
  /\ ObjectUnderRequired
  /\ call.data = noId
  /\ call.schema = requiredSchema
  /\ call.out.ok
  /\ call.out.value.result = Object(<< <<"age", Num(30)>> >>)

\* denormalize of a scalar result id under a named object schema
ScalarUnderNamed ==
  /\ call.op = "denormalize"
  /\ Rooted(call.schema)
  /\ isObjectSchemaEntity(RootEntity(call.schema))
  /\ Has(RootEntity(call.schema), "name")
  /\ Has(call.normalizedData, "entities")
  /\ call.normalizedData.result.kind \in {"string", "number"}

PartitionAbsent == RootEntity(call.schema).name \notin DOMAIN call.normalizedData.entities

IdAbsent ==
  /\ ~PartitionAbsent
  /\ KeyString(call.normalizedData.result)
       \notin DOMAIN call.normalizedData.entities[RootEntity(call.schema).name]

-----------------------------------------------------------------------------
(* Properties of safeNormalize *)

\* The callers whose callback has run and whose promise holds its outcome
Ran(p) == pc[p] \in {"holding", "settled"} /\ ~KeyThrows(input[p].data)

Fingerprint(in) == <<Stringify(in.data), StringifySchema(in.schema)>>

\* C16: independent calls.  Concurrent safeNormalize calls whose (data,
\* schema) fingerprints differ never wait on each other: a caller waits only
\* while a call with its own fingerprint is inside the lock.  In every
\* interleaving each call settles to what normalize alone returns for its
\* own input, so no entry of its entities comes from another call's input.
C16_Independent ==
  \A p \in Callers :
    /\ pc[p] = "waiting" =>
         \E q \in Callers \ {p} :
           pc[q] = "holding" /\ Fingerprint(input[q]) = Fingerprint(input[p])
    /\ Ran(p) => outcome[p] = normalize(input[p].data, input[p].schema, customSchemaHandlers)

\* ann and bob, both with id '1', under the same schema: both callbacks have
\* run, neither call waits, and each holds the entities of its own input.
C16_Witness ==
  \E p \in Callers : \E q \in Callers \ {p} :
    /\ input[p] = [data |-> ann, schema |-> userSchema]
    /\ input[q] = [data |-> bob, schema |-> userSchema]
    /\ pc[p] = "holding"
    /\ pc[q] = "holding"
    /\ Fingerprint(input[p]) # Fingerprint(input[q])
    /\ outcome[p].ok /\ outcome[q].ok
    /\ outcome[p].value.entities["user"]["1"].val["name"] = Str("ann")
    /\ outcome[q].value.entities["user"]["1"].val["name"] = Str("bob")

\* A queued call starts in the step in which the holder of its key settles.
StartsOnRelease ==
  \A p \in Callers :
    (pc[p] = "waiting" /\ pc'[p] = "holding") =>
      \E q \in Callers \ {p} :
        /\ pc[q] = "holding" /\ pc'[q] = "settled"
        /\ Fingerprint(input[q]) = Fingerprint(input[p])
        /\ outcome'[p] = normalize(input[p].data, input[p].schema, customSchemaHandlers)

\* C18: when safeNormalize calls with the identical fingerprint are queued, a
\* queued call has not started while the holder of its key has not completed,
\* it starts in the step in which that holder settles, whether the holder
\* resolved or rejected, and under fair scheduling every queued call
\* eventually settles.
C18_ReleaseAndProgress ==
  /\ [](\A p \in Callers :
          pc[p] = "waiting" =>
            /\ outcome[p] = NoCall
            /\ \E q \in Callers \ {p} :
                 pc[q] = "holding" /\ Fingerprint(input[q]) = Fingerprint(input[p]))
  /\ [][StartsOnRelease]_vars
  /\ \A p \in Callers : (pc[p] = "waiting") ~> (pc[p] = "settled")

\* The first call rejected with a NormalizationError, the second call with
\* the same fingerprint has run, and a third is still queued behind it.
C18_StartedAfterFailure ==
  \E p, q, r \in Callers :
    /\ pc[p] = "settled" /\ pc[q] = "holding" /\ pc[r] = "waiting"
    /\ input[p] = input[q] /\ input[q] = input[r]
    /\ ~outcome[p].ok /\ outcome[p].error.name = "NormalizationError"
    /\ outcome[q] # NoCall

-----------------------------------------------------------------------------
(* Properties of the traversal *)

Traversed ==
  /\ call.op \in {"normalize", "denormalize"}
  /\ Rooted(call.schema)
  /\ validateSchema(call.schema).ok

\* A data graph with a pointer cycle, cycA.friends = [cycB] and
\* cycB.friends = [cycA], under a schema whose friends are ids.
CyclicData ==
  /\ call.op = "normalize"
  /\ call.data = Ref("cycA")
  /\ call.schema = shallowSchema

\* C6: cycle safety.  normalize and denormalize end, and the depth of their
\* recursion is at most the nesting depth of the schema, whatever the depth
\* or cyclicity of the data; for A = {id: '1', friends: [B]} and
\* B = {id: '2', friends: ['1']} normalize then denormalize completes and
\* gives back the same structure.
C6_CycleSafety ==
  /\ Traversed => call.out.depth <= SchemaDepth(RootEntity(call.schema))
  /\ (RoundTripped /\ call.data = john /\ call.schema = circularSchema)
       => (call.out.ok /\ call.out.value = john)
  /\ (call.op = "normalize" /\ call.data = john /\ call.schema = circularSchema)
       => call.out.ok
  /\ CyclicData => call.out.ok

\* The round trip of A under the schema of the circular-reference test
C6_Witness ==
  /\ RoundTripped
  /\ call.data = john
  /\ call.schema = circularSchema
  /\ call.out.ok
  /\ call.out.value = john
  /\ call.out.depth = SchemaDepth(RootEntity(circularSchema))

-----------------------------------------------------------------------------
(* Properties of the registry *)

CustomRoot(c) ==
  /\ c.op = "normalize"
  /\ Rooted(c.schema)
  /\ validateSchema(c.schema).ok
  /\ isCustomSchemaEntity(RootEntity(c.schema))
  /\ ~Falsy(c.data)
  /\ TypeOf(c.data) = "object"

C7_Step ==
  /\ call'.op = "clear" =>
       \A name \in HandlerNames : getCustomSchemaHandler(customSchemaHandlers', name) = "absent"
  /\ \A name \in HandlerNames :
       (/\ getCustomSchemaHandler(customSchemaHandlers, name) = "absent"
        /\ getCustomSchemaHandler(customSchemaHandlers', name) # "absent")
         => (call'.op = "register" /\ call'.type = name)
  /\ (/\ CustomRoot(call')
      /\ getCustomSchemaHandler(customSchemaHandlers', RootEntity(call'.schema).name) = "absent")
       => /\ ~call'.out.ok
          /\ call'.out.error.name = "NormalizationError"
          /\ call'.out.error.message = "No custom handler found for schema type"

-----------------------------------------------------------------------------
(* Properties of the primitive codec *)

\* The schema entity an object schema declares for a property
PropertySchema(entity, key) ==
  entity.properties[CHOOSE i \in 1..Len(entity.properties) : entity.properties[i].key = key].schema

Declares(entity, key) == \E i \in 1..Len(entity.properties) : entity.properties[i].key = key

\* normalize of an object with the property `key` under a valid schema that
\* declares it
Bounded(key) ==
  /\ call.op = "normalize"
  /\ Rooted(call.schema)
  /\ validateSchema(call.schema).ok
  /\ isObjectSchemaEntity(RootEntity(call.schema))
  /\ Declares(RootEntity(call.schema), key)
  /\ call.data.kind = "object"
  /\ key \in DOMAIN call.data.val

\* {id: '1', age: v} under a schema whose only constraint is on age
NumberCase ==
  /\ Bounded("age")
  /\ call.schema = ageSchema(PropertySchema(RootEntity(call.schema), "age"))
  /\ call.data.val["age"].kind = "number"
  /\ call.data.val["id"].kind = "string"

\* {id: s} under a schema whose only constraints on id are on its length
StringCase ==
  /\ Bounded("id")
  /\ call.schema = idSchema(PropertySchema(RootEntity(call.schema), "id"))
  /\ call.data.val["id"].kind = "string"
  /\ ~Has(PropertySchema(RootEntity(call.schema), "id"), "pattern")

AtLeast(schema, field, n) == Has(schema, field) => schema[field] <= n
AtMost(schema, field, n) == Has(schema, field) => n <= schema[field]

\* C8: primitive bounds are inclusive.  normalize accepts an integer v
\* under a number schema exactly when minimum <= v <= maximum, failing with
\* 'Number below minimum' when v < minimum and with 'Number exceeds maximum'
\* when v > maximum, and accepts a string exactly when
\* minLength <= length <= maxLength.
C8_InclusiveBounds ==
  /\ NumberCase =>
       LET v == call.data.val["age"].val
           schema == PropertySchema(RootEntity(call.schema), "age")
       IN /\ call.out.ok <=> (AtLeast(schema, "minimum", v) /\ AtMost(schema, "maximum", v))
          /\ ~AtLeast(schema, "minimum", v) => call.out.error.message = "Number below minimum"
          /\ ~AtMost(schema, "maximum", v) => call.out.error.message = "Number exceeds maximum"
  /\ StringCase =>
       LET length == Len(call.data.val["id"].val)
           schema == PropertySchema(RootEntity(call.schema), "id")
       IN /\ call.out.ok <=> (AtLeast(schema, "minLength", length) /\ AtMost(schema, "maxLength", length))
          /\ ~AtLeast(schema, "minLength", length)
               => call.out.error.message = "String length below minimum"
          /\ ~AtMost(schema, "maxLength", length)
               => call.out.error.message = "String length exceeds maximum"

\* 18 against minimum 18 is accepted
C8_Witness ==
  /\ NumberCase
  /\ call.data.val["age"] = Num(18)
  /\ PropertySchema(RootEntity(call.schema), "age") = adultSchema
  /\ call.out.ok
  /\ call.out.value.result = Str("1")

-----------------------------------------------------------------------------
(* Properties of custom schema handlers *)

\* normalize reached the root custom node, a handler is registered for its
\* name, and the handler returned
HandlerReturned ==
  /\ CustomRoot(call)
  /\ getCustomSchemaHandler(customSchemaHandlers, RootEntity(call.schema).name) # "absent"
  /\ ~CallHandler(customSchemaHandlers[RootEntity(call.schema).name], call.data,
                  RootEntity(call.schema), NoEntities).threw

\* What the registered handler returns for the data of the call
HandlerResult ==
  CallHandler(customSchemaHandlers[RootEntity(call.schema).name], call.data,
              RootEntity(call.schema), NoEntities).value

IsId(v) == v.kind \in {"string", "number"}

\* The return shape the input's shape asks for
ShapeMatches(data, result) ==
  IF data.kind = "array"
  THEN /\ result.kind = "array"
       /\ Len(result.val) = Len(data.val)
       /\ \A i \in 1..Len(result.val) : IsId(result.val[i])
  ELSE IsId(result)

\* The message the code gives each mismatch
MismatchMessage(data, result) ==
  IF data.kind = "array"
  THEN IF result.kind # "array" THEN "Custom handler must return an array for array input"
       ELSE "Custom handler must return an array of EntityIDs for array input"
  ELSE IF result.kind = "array"
       THEN "Custom handler must return a single EntityID for non-array input"
       ELSE "Custom handler must return an EntityID for non-array input"

\* The claim as stated: C9, any result of another shape makes normalize
\* fail with a NormalizationError whose message is one of 'Custom handler
\* must return an array of EntityIDs for array input', '... an EntityID for
\* non-array input', '... a single EntityID for non-array input'.
C9_ThreeMessages ==
  HandlerReturned =>
    /\ call.out.ok <=> ShapeMatches(call.data, HandlerResult)
    /\ ~call.out.ok =>
         /\ call.out.error.name = "NormalizationError"
         /\ call.out.error.message \in
              {"Custom handler must return an array of EntityIDs for array input",
               "Custom handler must return an EntityID for non-array input",
               "Custom handler must return a single EntityID for non-array input"}

\* C9: custom handler return-shape contract.  For array input the handler's
\* result must be an array of the same length whose elements are all
\* strings or numbers, for non-array input a single string or number; any
\* other result makes normalize fail with a NormalizationError, whose
\* message is '... an array for array input' when the result for an array
\* is no array, '... an array of EntityIDs for array input' when an element
\* is no id or the length differs, '... a single EntityID for non-array
\* input' when the result for a non-array is an array, and '... an EntityID
\* for non-array input' otherwise.
C9_ReturnShape ==
  HandlerReturned =>
    /\ call.out.ok <=> ShapeMatches(call.data, HandlerResult)
    /\ ~call.out.ok =>
         /\ call.out.error.name = "NormalizationError"
         /\ call.out.error.message = MismatchMessage(call.data, HandlerResult)

\* entity => entity.id on an array: the result is undefined, no array
C9_Witness ==
  /\ HandlerReturned
  /\ call.data = Arr(<<ann, carl>>)
  /\ HandlerResult = Undefined
  /\ ~call.out.ok
  /\ call.out.error.message = "Custom handler must return an array for array input"

\* The last index at which the handler returned the id it returned at i
LastReturned(ids, i) ==
  CHOOSE j \in i..Len(ids) :
    /\ KeyString(ids[j]) = KeyString(ids[i])
    /\ \A k \in (j + 1)..Len(ids) : KeyString(ids[k]) # KeyString(ids[i])

\* C10: custom storage.  When the handler returns a valid id or list of
\* ids, normalize returns exactly that as the result and the store holds
\* the original input under entities[schema.name][id]: for array input,
\* element i under the i-th returned id (the write of a later element with
\* the same id replacing it), and nothing else.
C10_CustomStorage ==
  (HandlerReturned /\ call.out.ok) =>
    LET name == RootEntity(call.schema).name
        stored == call.out.value.entities
    IN /\ call.out.value.result = HandlerResult
       /\ DOMAIN stored = {name}
       /\ IF call.data.kind = "array"
          THEN LET ids == HandlerResult.val IN
               /\ DOMAIN stored[name] = {KeyString(ids[i]) : i \in 1..Len(ids)}
               /\ \A i \in 1..Len(ids) :
                    stored[name][KeyString(ids[i])] = call.data.val[LastReturned(ids, i)]
          ELSE /\ DOMAIN stored[name] = {KeyString(HandlerResult)}
               /\ stored[name][KeyString(HandlerResult)] = call.data

\* entities => entities.map(e => e.id) on [ann, carl]
C10_Witness ==
  /\ HandlerReturned
  /\ call.data = Arr(<<ann, carl>>)
  /\ call.out.ok
  /\ call.out.value.result = Arr(<<Str("1"), Str("2")>>)
  /\ call.out.value.entities["customEntity"]["1"] = ann
  /\ call.out.value.entities["customEntity"]["2"] = carl

-----------------------------------------------------------------------------
(* Properties of denormalize under a custom root *)

\* The round trip of a call whose root is a custom node with the handler of
\* tests/denormalizer/customDenormalizer.test.ts registered for its name,
\* then and now: it returns the id of an object and the stored value of an id.
CustomRoundTrip ==
  /\ RoundTripped
  /\ isCustomSchemaEntity(RootEntity(call.schema))
  /\ getCustomSchemaHandler(customSchemaHandlers, RootEntity(call.schema).name) = "storedOrId"

\* C11: custom denormalization.  When the root schema node is custom and a
\* handler is registered for its name, denormalize gives back what the
\* handler reconstructs from the raw id, so that
\* denormalize(normalize(x, s), s) equals x for a handler that maps ids back
\* to the stored value.
C11_CustomRoundTrip ==
  CustomRoundTrip => (call.out.ok /\ call.out.value = call.data)

\* The test's round trip: normalize stores ann under 'customEntity' and
\* returns '1'; denormalize finds the entity and then throws.
C11_CustomThrows ==
  /\ CustomRoundTrip
  /\ call.data = ann
  /\ call.schema = customSchema
  /\ call.normalizedData.result = Str("1")
  /\ call.normalizedData.entities["customEntity"]["1"] = ann
  /\ ~call.out.ok
  /\ call.out.error.name = "DenormalizationError"
  /\ call.out.error.message = "Custom schema entities are not supported in denormalization"

-----------------------------------------------------------------------------
(* Properties of denormalize under a root that is an array *)

\* The root entry is an array of named object schemas and result is a list
\* of ids, each of them stored under the name.
TopLevelArray ==
  /\ call.op = "denormalize"
  /\ Rooted(call.schema)
  /\ isArraySchemaEntity(RootEntity(call.schema))
  /\ isObjectSchemaEntity(RootEntity(call.schema).items)
  /\ Has(RootEntity(call.schema).items, "name")
  /\ Has(call.normalizedData, "entities")
  /\ call.normalizedData.result.kind = "array"
  /\ RootEntity(call.schema).items.name \in DOMAIN call.normalizedData.entities
  /\ \A i \in 1..Len(call.normalizedData.result.val) :
       /\ IsId(call.normalizedData.result.val[i])
       /\ KeyString(call.normalizedData.result.val[i])
            \in DOMAIN call.normalizedData.entities[RootEntity(call.schema).items.name]

\* The object the id stands for, reconstructed under the item schema
Reconstructed(id) ==
  denormalizeEntity(id, RootEntity(call.schema).items, call.normalizedData)

\* C12: top-level array results.  When the root schema entry is an array of
\* named object schemas and result is a list of ids, denormalize returns a
\* flat list with exactly one reconstructed object per id, in the order and
\* of the length of result.
C12_TopLevelArray ==
  TopLevelArray =>
    /\ call.out.ok
    /\ call.out.value.kind = "array"
    /\ Len(call.out.value.val) = Len(call.normalizedData.result.val)
    /\ \A i \in 1..Len(call.normalizedData.result.val) :
         /\ Reconstructed(call.normalizedData.result.val[i]).ok
         /\ call.out.value.val[i] = Reconstructed(call.normalizedData.result.val[i]).value

\* The README's shape: [ann, carl] under the users schema normalizes to
\* result ['1', '2'], and denormalize of it throws at the first id.
C12_TwoUsersFail ==
  /\ TopLevelArray
  /\ call.schema = usersSchema
  /\ call.normalizedData.result = Arr(<<Str("1"), Str("2")>>)
  /\ call.normalizedData.entities["user"]["1"] = ann
  /\ call.normalizedData.entities["user"]["2"] = carl
  /\ Reconstructed(Str("1")).value = ann
  /\ ~call.out.ok
  /\ call.out.error.message = "Expected array for entity: unknown:1"

-----------------------------------------------------------------------------
(* Properties of the errors of normalize *)

\* The error normalize makes of the validator's error
SchemaValidationFailed(message) ==
  /\ ~call.out.ok
  /\ call.out.depth = 0
  /\ call.out.error.name = "NormalizationError"
  /\ call.out.error.message = "Schema validation failed: " \o message
  /\ call.out.error.context.originalError = message

C14_AllOrNothing ==
  call.op = "normalize" =>
    \/ /\ call.out.ok
       /\ DOMAIN call.out = {"ok", "depth", "value"}
       /\ DOMAIN call.out.value = {"entities", "result"}
    \/ /\ ~call.out.ok
       /\ DOMAIN call.out = {"ok", "depth", "error"}
       /\ call.out.error.name = "NormalizationError"

\* The handler registered for the custom root throws null: the catch block
\* of normalize reads the message of what was thrown, and that read throws.
C14_ThrowsNull ==
  /\ CustomRoot(call)
  /\ call.data = ann
  /\ getCustomSchemaHandler(customSchemaHandlers, RootEntity(call.schema).name) = "throwsNull"
  /\ ~call.out.ok
  /\ call.out.error.name = "TypeError"

-----------------------------------------------------------------------------
(* Properties of the errors of denormalize *)

\* C15: every failing denormalize call fails with a DenormalizationError
\* and with no other kind of error, be it for an empty schema, a missing
\* partition or id, a shape mismatch or malformed normalizedData such as a
\* value without an entities map.
C15_OnlyDenormalizationErrors ==
  (call.op = "denormalize" /\ ~call.out.ok) => call.out.error.name = "DenormalizationError"

\* denormalize({ result: '1' }, userSchema): entities is undefined, and
\* entities[entityType] throws before any check is made.
C15_NoEntitiesMap ==
  /\ call.op = "denormalize"
  /\ call.normalizedData = [result |-> Str("1")]
  /\ call.schema = userSchema
  /\ ~call.out.ok
  /\ call.out.error.name = "TypeError"


-----------------------------------------------------------------------------
(* Stored scalars on the way back.                                         *)

\* The call denormalizes a stored object of the root type, and one of the
\* properties the schema declares primitive holds a stored value that
\* normalizePrimitive rejects under that property's schema.
ReachesInvalidScalar ==
  /\ ScalarUnderNamed
  /\ LET type == RootEntity(call.schema).name
         id == KeyString(call.normalizedData.result)
         props == RootEntity(call.schema).properties
     IN /\ type \in DOMAIN call.normalizedData.entities
        /\ id \in DOMAIN call.normalizedData.entities[type]
        /\ LET entity == call.normalizedData.entities[type][id] IN
           /\ entity.kind = "object"
           /\ \E i \in 1..Len(props) :
                /\ isPrimitiveSchemaEntity(props[i].schema)
                /\ props[i].key \in DOMAIN entity.val
                /\ ~normalizePrimitive(entity.val[props[i].key], props[i].schema).ok

\* C19: whenever denormalize reaches a stored scalar under a primitive schema
\* that violates the rules normalize applies (type, bounds, length, pattern),
\* the call fails with a DenormalizationError.
C19_RevalidatesPrimitives ==
  ReachesInvalidScalar =>
    /\ ~call.out.ok
    /\ call.out.error.name = "DenormalizationError"

\* denormalize hands back the stored age 'old' under the number schema.
C19_ReturnsInvalidScalar ==
  /\ ReachesInvalidScalar
  /\ call.schema = userSchema
  /\ call.out.ok
  /\ call.out.value.val["age"] = Str("old")

-----------------------------------------------------------------------------
(* Arrays.                                                                 *)

\* normalize of an array under a valid schema whose root is an array schema.
ArrayUnderArraySchema ==
  /\ call.op = "normalize"
  /\ Rooted(call.schema)
  /\ validateSchema(call.schema).ok
  /\ isArraySchemaEntity(RootEntity(call.schema))
  /\ call.data.kind = "array"

\* What the element at index i normalizes to on its own.
ItemAlone(i) ==
  normalizeEntity(call.data.val[i], RootEntity(call.schema).items, NoEntities,
                  customSchemaHandlers)

\* The elements whose normalization fails or does not yield a single id.
NotAnId == {i \in 1..Len(call.data.val) : ~ItemAlone(i).ok \/ ~isEntityID(ItemAlone(i).result)}

\* C20: array normalization yields a flat list of ids.  When every element
\* normalizes to a single string or number, the result is the list of these
\* ids, of the length and in the order of the input; otherwise the call fails
\* at the first element that does not: with that element's own error, with
\* 'Nested arrays are not supported' when it normalizes to an array, and with
\* 'Array item normalization did not result in an EntityID' when it normalizes
\* to an inline object or to any other value that is no id.
C20_FlatListOfIds ==
  ArrayUnderArraySchema =>
    IF NotAnId = {}
    THEN /\ call.out.ok
         /\ call.out.value.result.kind = "array"
         /\ Len(call.out.value.result.val) = Len(call.data.val)
         /\ \A i \in 1..Len(call.data.val) :
              call.out.value.result.val[i] = ItemAlone(i).result
    ELSE LET first == CHOOSE i \in NotAnId : \A j \in NotAnId : i <= j IN
         /\ ~call.out.ok
         /\ call.out.error.name = "NormalizationError"
         /\ call.out.error.message =
              (IF ~ItemAlone(first).ok THEN ItemAlone(first).error.message
               ELSE IF IsArray(ItemAlone(first).result) THEN "Nested arrays are not supported"
               ELSE "Array item normalization did not result in an EntityID")

\* [['a']] under an array of arrays of strings is refused as a nested array.
C20_NestedArrayRefused ==
  /\ ArrayUnderArraySchema
  /\ call.data = Arr(<<Arr(<<Str("a")>>)>>)
  /\ call.schema = nestedTagsSchema
  /\ ~call.out.ok
  /\ call.out.error.message = "Nested arrays are not supported"

-----------------------------------------------------------------------------
(* Objects written inline.                                                 *)

\* A successful normalize of an object without an id under a root object schema.
InlineRoot ==
  /\ call.op = "normalize"
  /\ call.out.ok
  /\ Rooted(call.schema)
  /\ isObjectSchemaEntity(RootEntity(call.schema))
  /\ call.data.kind = "object"
  /\ Get(call.data, "id") = Undefined

\* What the property at index i of the root object normalizes to on its own.
PropertyAlone(i) ==
  normalizeEntity(call.data.val[RootEntity(call.schema).properties[i].key],
                  RootEntity(call.schema).properties[i].schema, NoEntities,
                  customSchemaHandlers)

\* The declared properties the root object has, by their index in the schema.
Present ==
  {i \in 1..Len(RootEntity(call.schema).properties) :
     RootEntity(call.schema).properties[i].key \in DOMAIN call.data.val}

-----------------------------------------------------------------------------
(* The shape of the store.                                                 *)

\* A value inside a stored entity: a scalar, an array of ids, or a map
\* written inline (it has no id of its own) of such values.
RECURSIVE FlatValue(_)
FlatValue(v) ==
  CASE v.kind \in {"string", "number", "boolean", "null", "undefined"} -> TRUE
    [] v.kind = "array" -> \A i \in 1..Len(v.val) : isEntityID(v.val[i])
    [] v.kind = "object" ->
         /\ "id" \notin DOMAIN v.val
         /\ \A k \in DOMAIN v.val : FlatValue(v.val[k])
    [] OTHER -> FALSE

\* A stored entity: a record whose properties are flat values.
FlatEntity(e) == e.kind = "object" /\ \A k \in DOMAIN e.val : FlatValue(e.val[k])

\* C22: in every NormalizedData normalize returns, each stored entity value
\* is built only from scalars, ids and arrays of ids: no identified object
\* and no array of objects appears inside a stored value.
C22_StoreIsFlat ==
  (call.op = "normalize" /\ call.out.ok) =>
    \A t \in DOMAIN call.out.value.entities : \A k \in DOMAIN call.out.value.entities[t] :
      FlatEntity(call.out.value.entities[t][k])

\* Under the custom schema john is stored as he was passed in, with jane as
\* an object in his friends.
C22_RawCustomEntity ==
  /\ call.op = "normalize"
  /\ call.out.ok
  /\ call.data = john
  /\ call.schema = customSchema
  /\ call.out.value.entities["customEntity"]["1"] = john
  /\ call.out.value.entities["customEntity"]["1"].val["friends"].val[1] = jane

-----------------------------------------------------------------------------
(* Ids of different types.                                                 *)

\* A successful normalize of an array of identified objects of a named type.
ArrayOfIdentified ==
  /\ call.op = "normalize"
  /\ call.out.ok
  /\ Rooted(call.schema)
  /\ isArraySchemaEntity(RootEntity(call.schema))
  /\ isObjectSchemaEntity(RootEntity(call.schema).items)
  /\ Has(RootEntity(call.schema).items, "name")
  /\ call.data.kind = "array"
  /\ Len(call.data.val) > 0

\* C23: a numeric id and a string id that looks numeric stay distinct.  The
\* store holds one entry for each distinct id of the array, the number 1 and
\* the string '1' counted apart, and each id leads to the value of the last
\* element that carries this very id.
C23_IdsStayDistinct ==
  ArrayOfIdentified =>
    LET array == call.data.val
        itemSchema == RootEntity(call.schema).items
        partition == call.out.value.entities[itemSchema.name]
    IN /\ Cardinality(DOMAIN partition) = Cardinality({Get(array[i], "id") : i \in 1..Len(array)})
       /\ \A i \in 1..Len(array) :
            partition[KeyString(Get(array[i], "id"))]
              = NormalizedAlone(array[LastOccurrence(array, i)], itemSchema)

\* [{id: 1, name: 'one'}, {id: '1', name: 'text'}]: the result keeps 1 and
\* '1' apart and the store has the one entry '1', holding 'text'.
C23_OneEntryForTwoIds ==
  /\ ArrayOfIdentified
  /\ call.data = Arr(<<one, oneText>>)
  /\ call.out.value.result = Arr(<<Num(1), Str("1")>>)
  /\ DOMAIN call.out.value.entities["user"] = {"1"}
  /\ call.out.value.entities["user"]["1"] = Object(<< <<"name", Str("text")>> >>)

-----------------------------------------------------------------------------
(* Names of object schemas.                                                *)

\* The schema entity is written as an object schema and has no name.
NamelessObject(entity) ==
  /\ ~Has(entity, "kind")
  /\ Has(entity, "type")
  /\ entity.type = "object"
  /\ ~Has(entity, "name") \/ entity.name = ""

\* Some object schema below the entity has no name.
RECURSIVE NamelessBelow(_)
NamelessBelow(entity) ==
  IF Has(entity, "kind") \/ ~Has(entity, "type") THEN FALSE
  ELSE IF entity.type = "object" /\ Has(entity, "properties")
  THEN \E i \in 1..Len(entity.properties) :
         \/ NamelessObject(entity.properties[i].schema)
         \/ NamelessBelow(entity.properties[i].schema)
  ELSE IF entity.type = "array" /\ Has(entity, "items")
  THEN NamelessObject(entity.items) \/ NamelessBelow(entity.items)
  ELSE FALSE

\* C24: the schema gate on names.  A schema with an object schema without a
\* name at any top-level entry is rejected before any data is traversed, and
\* when the entries before it are valid the message is 'Top-level object
\* schema must have a name at path: ' followed by the entry's key.  A schema
\* whose object schemas without a name are all at nested positions passes
\* the gate, and the call goes on to traverse the data.
C24_NameGate ==
  (call.op = "normalize" /\ Has(call.schema, "entries")) =>
    LET entries == call.schema.entries
        nameless == {i \in 1..Len(entries) : NamelessObject(entries[i].schema)}
    IN /\ nameless # {} => (~call.out.ok /\ call.out.depth = 0)
       /\ \A i \in nameless :
            (\A j \in 1..(i - 1) :
               validateSchemaEntity(entries[j].schema, entries[j].key, TRUE, 0).ok)
            => SchemaValidationFailed("Top-level object schema must have a name at path: "
                                      \o entries[i].key)
       /\ (nameless = {} /\ \E i \in 1..Len(entries) : NamelessBelow(entries[i].schema))
            => /\ validateSchema(call.schema).ok
               /\ call.out.ok \/ call.out.depth > 0

\* The user entry without a name is the second entry; the first, a custom
\* entry, is valid and null is passed as the data.
C24_SecondEntryNameless ==
  /\ call.op = "normalize"
  /\ call.schema = lateInvalidSchema
  /\ call.data = Null
  /\ NamelessObject(call.schema.entries[2].schema)
  /\ ~call.out.ok
  /\ call.out.depth = 0
  /\ call.out.error.message =
       "Schema validation failed: Top-level object schema must have a name at path: user"

-----------------------------------------------------------------------------
(* Properties of string patterns *)

\* {id: s} under a schema whose id has a pattern
PatternCase ==
  /\ Bounded("id")
  /\ call.schema = idSchema(PropertySchema(RootEntity(call.schema), "id"))
  /\ call.data.val["id"].kind = "string"
  /\ Has(PropertySchema(RootEntity(call.schema), "id"), "pattern")

\* The value passes the length checks that come before the pattern check.
LengthPasses ==
  LET schema == PropertySchema(RootEntity(call.schema), "id")
      length == Len(call.data.val["id"].val)
  IN AtLeast(schema, "minLength", length) /\ AtMost(schema, "maxLength", length)

\* C25: pattern errors are classified.  Under a string schema whose pattern
\* compiles, a value that does not match the pattern fails with the data
\* error 'String does not match pattern'; the error 'Invalid pattern in
\* schema' is raised only when the pattern cannot be compiled.
C25_PatternErrorsClassified ==
  (PatternCase /\ LengthPasses) =>
    LET schema == PropertySchema(RootEntity(call.schema), "id")
        value == call.data.val["id"].val
    IN /\ (PatternCompiles(schema.pattern) /\ ~PatternTest(schema.pattern, value))
            => (~call.out.ok /\ call.out.error.message = "String does not match pattern")
       /\ (~call.out.ok /\ call.out.error.message = "Invalid pattern in schema")
            => ~PatternCompiles(schema.pattern)

\* 'b' against the pattern ^a+$: the pattern compiles, the value does not
\* match, and the call fails with 'Invalid pattern in schema', the mismatch
\* message left in the context.
C25_MismatchReportedAsInvalidPattern ==
  /\ PatternCase
  /\ PropertySchema(RootEntity(call.schema), "id") = [type |-> "string", pattern |-> "^a+$"]
  /\ call.data.val["id"] = Str("b")
  /\ PatternCompiles("^a+$")
  /\ ~call.out.ok
  /\ call.out.error.message = "Invalid pattern in schema"
  /\ call.out.error.context.error = "String does not match pattern"

-----------------------------------------------------------------------------
(* Properties of the array branch of denormalize *)

\* denormalizeEntity is entered at the root with an id that is no array,
\* under a root schema of type array.
ScalarAtArrayRoot ==
  /\ call.op = "denormalize"
  /\ Rooted(call.schema)
  /\ isArraySchemaEntity(RootEntity(call.schema))
  /\ TypeOf(call.normalizedData.result) \in {"string", "number"}

\* C26: the array shape check of denormalize.  When denormalize meets a
\* value that is not an array at a node whose schema is an array schema, the
\* call fails with a DenormalizationError, whatever the schema of the items,
\* primitive items included.
C26_NonArrayIsTerminal ==
  ScalarAtArrayRoot =>
    (~call.out.ok /\ call.out.error.name = "DenormalizationError")

\* The result '1' under { tags: array of string }: the call returns '1'.
C26_ScalarReturnedUnderPrimitiveItems ==
  /\ ScalarAtArrayRoot
  /\ call.schema = tagsSchema
  /\ call.normalizedData.result = Str("1")
  /\ isPrimitiveSchemaEntity(RootEntity(call.schema).items)
  /\ call.out.ok
  /\ call.out.value = Str("1")

-----------------------------------------------------------------------------
(* Properties of the store during one normalize call *)

\* The (type, id) keys of a store.
Entries(entities) ==
  UNION {{<<name, id>> : id \in DOMAIN entities[name]} : name \in DOMAIN entities}

\* The keys of after that are not in before, or hold another value there.
Written(before, after) ==
  {e \in Entries(after) : e \notin Entries(before) \/ after[e[1]][e[2]] # before[e[1]][e[2]]}

\* When the call has returned or thrown, it has done what normalize does in
\* one piece: the same result or error and the same store.
WalkAgrees ==
  (call.op = "start" /\ frames = <<>>) =>
    IF Has(ret, "entities")
    THEN ret = [normalizeEntity(call.data, RootEntity(call.schema), NoEntities,
                                customSchemaHandlers) EXCEPT !.depth = 0]
    ELSE ret = normalize(call.data, call.schema, customSchemaHandlers)

\* C27: the entity store only grows during a normalize call.  The store is
\* empty when the call starts its traversal; every step of the call leaves
\* the store as it is or adds or overwrites one entry; no partition and no
\* (type, id) key that is in the store is missing after a later step.
C27_StoreOnlyGrows ==
  [][/\ (frames = <<>> /\ frames' # <<>>) => store' = NoEntities
     /\ frames # <<>> =>
          /\ DOMAIN store \subseteq DOMAIN store'
          /\ Entries(store) \subseteq Entries(store')
          /\ Cardinality(Written(store, store')) <= 1]_vars

\* Both users of [ann, carl] are in the store while the array's loop is
\* still on the stack.
C27_TwoEntriesMidCall ==
  /\ call.op = "start"
  /\ call.data = Arr(<<ann, carl>>)
  /\ call.schema = usersSchema
  /\ Len(frames) = 1
  /\ Caller(frames).phase = "items"
  /\ Caller(frames).index = 3
  /\ Entries(store) = {<<"user", "1">>, <<"user", "2">>}

-----------------------------------------------------------------------------
(* Properties of addressing *)

\* denormalize(normalize(data, schema), schema) of an object with an id
\* under a root object schema
IdentifiedRootRoundTrip ==
  /\ call.op = "denormalize"
  /\ call.from = "normalize"
  /\ Rooted(call.schema)
  /\ isObjectSchemaEntity(RootEntity(call.schema))
  /\ Get(call.data, "id") # Undefined

\* The properties of the root schema that are object schemas and that the
\* data has.
ObjectProperties ==
  LET properties == RootEntity(call.schema).properties
  IN {properties[i].key : i \in {j \in 1..Len(properties) :
                                   /\ isObjectSchemaEntity(properties[j].schema)
                                   /\ HasProp(call.data, properties[j].key)}}

\* C28: consistent addressing.  For an object schema node with or without a
\* name, denormalize reads an identified object from the partition normalize
\* stored it in ('unnamed' when the schema has no name), so an object below
\* the root is recovered by denormalize whether it has an id or is inline.
C28_ConsistentAddressing ==
  IdentifiedRootRoundTrip =>
    /\ call.out.ok
    /\ \A key \in ObjectProperties : Get(call.out.value, key) = Get(call.data, key)

\* The profile {id: 'p', name: 'ann'} under the nameless profile schema is
\* stored as unnamed:'p' and comes back as {}.
C28_UnnamedNotDereferenced ==
  /\ IdentifiedRootRoundTrip
  /\ call.schema = profileSchema
  /\ call.data = withProfile
  /\ "unnamed" \in DOMAIN call.normalizedData.entities
  /\ "p" \in DOMAIN call.normalizedData.entities["unnamed"]
  /\ call.normalizedData.entities["user"]["1"].val["profile"] = Str("p")
  /\ call.out.ok
  /\ Get(call.out.value, "profile") = EmptyObj

-----------------------------------------------------------------------------
(* Properties of references *)

\* schema.name || 'unnamed'
PartitionOf(schema) ==
  IF Has(schema, "name") /\ schema.name # "" THEN schema.name ELSE "unnamed"

InStore(entities, name, id) ==
  name \in DOMAIN entities /\ KeyString(id) \in DOMAIN entities[name]

\* value is what normalizing a node under schema left in its place: every id
\* in it that stands for an object or custom node has its entry, and so has
\* every such id inside the records those entries hold.
RECURSIVE Resolves(_, _, _)
Resolves(value, schema, entities) ==
  IF isCustomSchemaEntity(schema)
  THEN IF IsArray(value)
       THEN \A i \in 1..Len(value.val) : InStore(entities, schema.name, value.val[i])
       ELSE InStore(entities, schema.name, value)
  ELSE IF isObjectSchemaEntity(schema)
  THEN LET Declared(record) ==
             \A i \in 1..Len(schema.properties) :
               HasProp(record, schema.properties[i].key)
                 => Resolves(Get(record, schema.properties[i].key),
                             schema.properties[i].schema, entities)
       IN IF value.kind = "object" THEN Declared(value)
          ELSE /\ InStore(entities, PartitionOf(schema), value)
               /\ Declared(entities[PartitionOf(schema)][KeyString(value)])
  ELSE IF isArraySchemaEntity(schema)
  THEN \A i \in 1..Len(value.val) : Resolves(value.val[i], schema.items, entities)
  ELSE TRUE

\* C29: referential integrity.  In the NormalizedData of a successful
\* normalize, every id produced for an object or custom node, in result, in
\* a property of a stored record or in a stored array, has an entry in the
\* partition normalize used for the node.
C29_NoDanglingReference ==
  (call.op = "normalize" /\ call.out.ok) =>
    Resolves(call.out.value.result, RootEntity(call.schema), call.out.value.entities)

\* john with jane among his friends: the result '1' and the '2' inside the
\* stored record of '1' both have their entries.
C29_NestedReferenceStored ==
  /\ call.op = "normalize"
  /\ call.data = john
  /\ call.schema = circularSchema
  /\ call.out.ok
  /\ call.out.value.result = Str("1")
  /\ call.out.value.entities["user"]["1"].val["friends"] = Arr(<<Str("2")>>)
  /\ InStore(call.out.value.entities, "user", Str("2"))

-----------------------------------------------------------------------------
(* Properties of the logger's queue *)

IsPrefix(short, long) ==
  Len(short) <= Len(long) /\ \A i \in 1..Len(short) : short[i] = long[i]

\* C30: delivery of the log queue.  Whatever the interleaving of log() calls
\* with a batch in progress, every entry log() accepted is in the end
\* emitted, once and in the order of acceptance, and no two passes of
\* processLogQueue take entries from the queue at the same time.
C30_QueueDelivery ==
  /\ [](Len(passes) <= 1)
  /\ [](IsPrefix(emitted, accepted))
  /\ \A n \in 1..MaxLogs : (Len(accepted) >= n) ~> (Len(emitted) >= n)

\* An entry whose context has a cycle was accepted, formatLogEntry threw in
\* the pass that took it, and the flag is left set with no pass running:
\* the entries accepted are not emitted and nothing is left to run.
C30_FlagLeftSet ==
  /\ isProcessing
  /\ passes = <<>>
  /\ immediates = 0
  /\ logged = MaxLogs
  /\ \E i \in 1..Len(accepted) : HasRef(accepted[i].context)
  /\ Len(emitted) < Len(accepted)
  /\ logQueue # <<>>

====
